---- MODULE Spec2Model ----
(***************************************************************************)
(* A model of antevents/base.py: the Publisher dispatch state machine      *)
(* (subscribe, dispose, _dispatch_next/_completed/_error, _close_topic)    *)
(* and the Scheduler with its event loop and worker threads.               *)
(*                                                                         *)
(* Specification Spec drives one Publisher with its default topic. The     *)
(* subscribers' callbacks are the environment: while a callback runs it    *)
(* may return, raise, or call back into the publisher (dispatch, subscribe,*)
(* dispose), so an inline dispatch is a stack frame that advances one      *)
(* callback at a time.                                                     *)
(*                                                                         *)
(* Specification SpecArgs drives the same Publisher with every kind of     *)
(* argument subscribe() and the _dispatch_* methods can be given: topics   *)
(* never declared, subscribers that lack callbacks, bare callables.        *)
(*                                                                         *)
(* Specification SpecSched drives a Scheduler over an event loop with two  *)
(* sources. Every schedule_* discipline is available; the loop runs one    *)
(* handle at a time, timers become due at any later iteration, and the     *)
(* steps of a worker thread interleave with the handles of the main loop.  *)
(*                                                                         *)
(* Specification SpecFilter drives pipelines of Filters (antevents/base.py *)
(* and the take operator of antevents/linq/take.py) with one stream of     *)
(* events, each dispatch running inline down to a recording sink.          *)
(*                                                                         *)
(* Specification SpecSink drives a BlockingSubscriber: publishers on the   *)
(* main loop call its proxy callbacks, which fill a queue; its worker      *)
(* thread takes the tuples one by one and its steps interleave with the    *)
(* main loop until it exits and posts its deregistration.                  *)
(*                                                                         *)
(* Specification SpecCsv drives a RollingCsvWriter (antevents/adapters/    *)
(* csv.py) with a stream of dated events over a directory in which some of *)
(* the daily files exist already.                                          *)
(***************************************************************************)
EXTENDS Integers, Sequences, FiniteSets, TLC

\* ---------------------------------------------------------------- bounds
MaxCalls == 3          \* _dispatch_* calls in one behaviour
MaxDepth == 2          \* nesting of re-entrant inline dispatches
MaxSubscriptions == 3  \* successful subscribe calls in one behaviour
MaxWork == 5           \* dispatch calls plus subscriptions in one behaviour
MaxArgsWork == 3       \* the same, where every kind of argument is tried
MaxItems == 2          \* elements of the sequence an iterable source yields
MaxScheduleCalls == 2  \* calls of the Scheduler.schedule_* methods
MaxUserCalls == 1      \* calls of cancel handles and of Scheduler.stop
MaxObserve == 2        \* events a source without a fixed sequence dispatches
MaxWorkers == 1        \* sources given to a worker-thread discipline
MaxRuns == 2           \* calls of Scheduler.run_forever
MaxCancelAgain == 1    \* further calls of a cancel handle already called,
                       \* by a program that started no worker thread
MaxCount == 3          \* the count argument of take
MaxStream == 5         \* events of the stream the pipelines are given
MaxEmit == 3           \* events the publishers of a BlockingSubscriber emit
MaxRows == 4           \* events a RollingCsvWriter is given
MaxRaceOps == 4        \* calls the two threads make on a shared Publisher
MaxStops == 2          \* calls of request_stop and Scheduler.stop by the
                       \* program of a BlockingSubscriber

\* ------------------------------------------------------------- constants
None == "None"

\* Publisher(): the topics declared at construction (topics=None)
DeclaredTopics == {"default"}
\* topic arguments the callers try, one of them never declared
TopicArgs == DeclaredTopics \cup {"nope"}
\* sub_topic arguments of subscribe
SubTopicArgs == {"default", "x"}
\* subscriber objects that define on_next, on_completed and on_error
Subscribers == {"s1", "s2"}
\* subscriber arguments: these, an object without on_completed, a bare
\* callable, and a callable object that has on_next but no on_completed
SubscriberArgs == Subscribers \cup {"partial", "fn", "fn_partial"}

Kinds == {"next", "completed", "error"}
Terminal == {"completed", "error"}

\* class FatalError and its subclasses
FatalErrors == {"FatalError", "InvalidTopicError", "UnknownTopicError",
                "TopicAlreadyClosed", "ExcInDispatch", "ScheduleError"}
\* what a subscriber callback may raise: a FatalError or any other Exception
CallbackRaises == {"FatalError", "Exception"}

VARIABLES
    pub,        \* the Publisher: __topics__, __subscribers__, __closed_topics__,
                \* __unschedule_hook__, __enqueue_fn__
    stack,      \* inline dispatches in progress, innermost last
    loopq,      \* calls posted through enqueue_fn to the main loop, FIFO
    handles,    \* the dispose closures returned by subscribe, by number
                \* (since: history, the dispatch calls made before it)
    trace,      \* history: dispatch calls and callback invocations
    last,       \* history: the operation of the last step and its outcome
    ncalls,     \* history: number of _dispatch_* calls so far
    hookCalls,  \* history: invocations of the unschedule hook
    termDone,   \* history: topics whose terminal dispatch returned normally
    raised,     \* history: some call has raised so far
    pubs,       \* the publishers of the scheduled sources, by source
    source,     \* the sources: position in their sequence, how it ends
    sched,      \* the Scheduler: active_schedules, fatal_error
    loop,       \* the event loop: run state, stop flag, ready queue, timers
    thread,     \* the worker thread of each source
    hist,       \* history of the scheduled run: callbacks with the thread
                \* they ran on, hook invocations, calls made by the program
    chain,      \* the pipelines of filters: every stage's publisher and
                \* closure variables, what each sink has received
    bridge,     \* a BlockingSubscriber with its queue and worker thread, the
                \* publishers it is subscribed to, their Scheduler and loop
    csv,        \* a RollingCsvWriter, the files of its directory and the
                \* file operations it has made
    shared      \* a Publisher used by two threads at once: its three
                \* collections and the statement each thread is at

pubVars == <<pub, stack, loopq, handles, trace, last, ncalls, hookCalls,
             termDone, raised>>
schedVars == <<pubs, source, sched, loop, thread, hist>>
filtVars == <<chain>>
sinkVars == <<bridge>>
csvVars == <<csv>>
raceVars == <<shared>>
notPub == <<schedVars, filtVars, sinkVars, csvVars, raceVars>>
notSched == <<pubVars, filtVars, sinkVars, csvVars, raceVars>>
vars == <<pubVars, schedVars, filtVars, sinkVars, csvVars, raceVars>>

\* ------------------------------------------------------- name resolution
\* hasattr(subscriber, _on_<kind>_name(sub_topic))
HasAttr(s, kind, st) ==
    \/ s \in Subscribers /\ st = "default"
    \/ s \in {"partial", "fn_partial"} /\ st = "default"
                                       /\ kind \in {"next", "error"}

\* callable(subscriber)
Callable(s) == s \in {"fn", "fn_partial"}

\* _Subscription: Python compares the namedtuples field by field, so two
\* subscriptions of one subscriber object with one sub_topic are equal. The
\* id field is history only (which subscribe call made the tuple). A bare
\* callable is wrapped in a fresh CallableAsSubscriber at every subscribe.
Subscription(id, s, st) ==
    [id |-> id,
     subscriber |-> IF ~HasAttr(s, "next", st) /\ Callable(s)
                    THEN <<"CallableAsSubscriber", id>> ELSE <<s, 0>>,
     sub_topic |-> st]

SubEq(a, b) == a.subscriber = b.subscriber /\ a.sub_topic = b.sub_topic

\* list.remove(x): the index of the first element equal to x, 0 if none
FirstEq(l, x) ==
    IF \E i \in 1..Len(l) : SubEq(l[i], x)
    THEN CHOOSE i \in 1..Len(l) :
            SubEq(l[i], x) /\ \A j \in 1..(i-1) : ~SubEq(l[j], x)
    ELSE 0

RemoveAt(l, i) == SubSeq(l, 1, i-1) \o SubSeq(l, i+1, Len(l))

\* ------------------------------------------------------ Publisher (pure)
\* Publisher.__init__
NewPublisher(ts) ==
    [topics |-> ts,
     subscribers |-> [t \in ts |-> <<>>],
     closed_topics |-> <<>>,
     unschedule_hook |-> None,
     enqueue_fn |-> None]

InList(l, x) == \E i \in 1..Len(l) : l[i] = x

\* a subscribe whose getattr loop forgets on_completed
SubscribeCheck_NoCompleted(p, s, pt, st) ==
    IF pt \notin p.topics THEN "InvalidTopicError"
    ELSE IF ~HasAttr(s, "next", st) /\ Callable(s) THEN "ok"
    ELSE IF \E k \in {"next", "error"} : ~HasAttr(s, k, st)
         THEN "InvalidTopicError"
    ELSE "ok"

\* subscribe: the two checks that raise InvalidTopicError. A callable
\* without on_next is replaced by a CallableAsSubscriber, which has all
\* three methods.
SubscribeCheck(p, s, pt, st) ==
    IF pt \notin p.topics THEN "InvalidTopicError"
    ELSE IF ~HasAttr(s, "next", st) /\ Callable(s) THEN "ok"
    ELSE IF \E k \in Kinds : ~HasAttr(s, k, st) THEN "InvalidTopicError"
    ELSE "ok"

\* the try/except KeyError at the head of every _dispatch_* method
Lookup(p, t) ==
    IF t \in DOMAIN p.subscribers THEN "ok"
    ELSE IF InList(p.closed_topics, t) THEN "TopicAlreadyClosed"
    ELSE "UnknownTopicError"

\* a _close_topic that forgets to record the topic in __closed_topics__
DropTopic_Unrecorded(p, t) ==
    [p EXCEPT !.subscribers = [u \in (DOMAIN p.subscribers) \ {t} |->
                                    p.subscribers[u]],
              !.topics = p.topics \ {t}]

\* _close_topic, first three statements (the caller has checked the key)
DropTopic(p, t) ==
    [p EXCEPT !.subscribers = [u \in (DOMAIN p.subscribers) \ {t} |->
                                    p.subscribers[u]],
              !.topics = p.topics \ {t},
              !.closed_topics = Append(p.closed_topics, t)]

\* a _close_topic that calls the hook at every close
HookDue_AnyClose(p) == p.unschedule_hook # None

\* _close_topic: is the unschedule hook called after dropping the topic?
HookDue(p) == DOMAIN p.subscribers = {} /\ p.unschedule_hook # None

\* _close_topic, after the hook has returned
ReleaseLinks(p) == [p EXCEPT !.unschedule_hook = None, !.enqueue_fn = None]

\* _close_topic with a hook that returns normally
CloseTopic(p, t) ==
    LET q == DropTopic(p, t) IN IF HookDue(q) THEN ReleaseLinks(q) ELSE q

HookFires(p, t) == HookDue(DropTopic(p, t))

\* the except clauses around the inline loop of a _dispatch_* method
Conv(e) == IF e \in FatalErrors THEN e ELSE "ExcInDispatch"

\* ------------------------------------------------- exceptions in callbacks
Top(stk) == stk[Len(stk)]
Front(stk) == SubSeq(stk, 1, Len(stk) - 1)

\* An exception e leaves the callback that the innermost frame of stk is
\* running (callbacks do not catch): what reaches the outermost caller, and
\* what escapes the _dispatch_* calls in progress.
TopExc(e, stk) ==
    IF stk = <<>> THEN e
    ELSE IF Top(stk).mode = "inline" THEN Conv(e) ELSE e

EscSet(e, stk) ==
    IF stk = <<>> THEN {}
    ELSE IF Top(stk).mode = "inline" THEN {Conv(e)} ELSE {}

\* history record of one step: the operation, its arguments (kind, topic,
\* arg), the subscription or handle concerned (sid), what the call returned
\* or raised (res: "ok", "pending" while its callbacks run, or the
\* exception), and the exceptions that escaped _dispatch_* calls (esc)
Result(op, kind, topic, arg, sid, res, esc) ==
    [op |-> op, kind |-> kind, topic |-> topic, arg |-> arg, sid |-> sid,
     res |-> res, esc |-> esc]

NoArg == <<None, None>>

Call(kind, topic, val) ==
    [t |-> "call", sid |-> 0, kind |-> kind, topic |-> topic, val |-> val]
Cb(sub, kind, topic, val) ==
    [t |-> "cb", sid |-> sub.id, kind |-> kind, topic |-> topic, val |-> val]

\* ------------------------------------------------- sources and scheduler
\* the scheduled sources: "a" is an IterableAsPublisher (one topic), "b" a
\* publisher with two topics that dispatches whatever its environment has
Sources == {"a", "b"}
SourceTopics(s) == IF s = "a" THEN {"default"} ELSE {"default", "aux"}

\* the scheduling disciplines: schedule_periodic, schedule_recurring,
\* schedule_later_one_time on the main loop; schedule_periodic_on_separate_
\* thread and schedule_on_private_event_loop with a worker thread
DirectDisciplines == {"periodic", "recurring", "one_time"}
WorkerDisciplines == {"separate_thread", "private_loop"}

\* a publisher as the program sets it up before scheduling: one subscriber
\* on every topic
SourcePublisher(s) ==
    [NewPublisher(SourceTopics(s)) EXCEPT
        !.subscribers = [t \in SourceTopics(s) |->
                            <<Subscription(1, "s1", "default")>>]]

\* a source at construction: it will yield n elements (numbered 1..n) and
\* then end: "stop" (StopIteration), "exception" or "fatal" (raised by the
\* iterable); closes counts the calls of _close
NewSource(n, ends) ==
    [n |-> n, pos |-> 0, ends |-> ends, closes |-> 0, kind |-> "iterable",
     first |-> TRUE]

\* FunctionIteratorAsPublisher(initial_state, condition, iterate,
\* result_selector): the states are numbered from 0 (the initial state), pos
\* is the number of the current one, condition holds for the states below n
\* and result_selector gives state i the value i + 1
NewFunctionSource(n) == [NewSource(n, "stop") EXCEPT !.kind = "function"]

\* Scheduler.__init__
NewScheduler == [active_schedules |-> <<>>, fatal_error |-> None]

\* the asyncio event loop before run_forever: nothing ready, no timers.
\* batch: handles of the current iteration still to run; cancelled: ready
\* handles that were cancelled; nh: handles created and kept so far
NewEventLoop ==
    [state |-> "idle", stopping |-> FALSE, batch |-> 0, ready |-> <<>>,
     timers |-> {}, cancelled |-> {}, nh |-> 0]

\* no threading.Thread created for the source yet; error: the thread has
\* caught an exception of the source
NoThread ==
    [state |-> "none", discipline |-> None, stop_requested |-> FALSE,
     error |-> FALSE]

NoHistory ==
    [log |-> <<>>,                           \* callbacks run, with thread
     hooks |-> [s \in Sources |-> <<>>],     \* per unschedule-hook call: the
                                             \* topics open at the call
     disc |-> [s \in Sources |-> <<>>],      \* disciplines s was scheduled with
     user |-> 0,                             \* cancel / stop calls made
     cbraised |-> FALSE,                     \* a subscriber callback raised
     observes |-> [s \in Sources |-> 0],     \* observe calls per source
     runs |-> 0,                             \* run_forever calls
     cancelled |-> {},                       \* sources whose cancel handle
                                             \* the program has called
     late |-> [s \in Sources |-> 0],         \* observe calls started after
                                             \* that
     cancels |-> <<>>,                       \* the cancel calls: CancelCall
     unlisted |-> {},                        \* sources observed while not in
                                             \* active_schedules
     self |-> {},                            \* sources that scheduled
                                             \* themselves from _observe
     again |-> FALSE,                        \* a schedule call was made
                                             \* after run_forever had ended
     inobs |-> [s \in Sources |-> FALSE],    \* in the latest observe of s an
                                             \* on_next called inline raised
                                             \* an exception not a FatalError
     converted |-> {},                       \* sources whose subscribers got
                                             \* an error event after that, in
                                             \* the same observe
     stopped |-> {},                         \* cooperative sources not
                                             \* scheduled since a
                                             \* Scheduler.stop returned
     afterstop |-> {},                       \* those of them that were
                                             \* observed all the same
     asserted |-> {},                        \* the assert statements of
                                             \* the periodic and recurring
                                             \* run tasks that have failed
     direct |-> {},                          \* sources whose entry a del
                                             \* statement outside
                                             \* _remove_from_active_schedules
                                             \* has deleted
     sent |-> [s \in Sources |-> None],      \* the latest observe of s: kind
                                             \* of the last _dispatch_* call
     ret |-> [s \in Sources |-> None]]       \* what it returned ("True",
                                             \* "False"), or the exception

\* a call of a cancel handle by the program: the source, the discipline of
\* the schedule call that returned the handle, whether the source had no
\* entry in active_schedules, the exception raised, and whether the call
\* left active_schedules, the handles of the loop and its stop flag as they
\* were
CancelCall(s, d, absent, res, kept) ==
    [s |-> s, d |-> d, absent |-> absent, res |-> res, kept |-> kept]

\* everything a call on the main thread or a worker thread can touch, as one
\* record; exc is the exception the call in progress has raised, ret the
\* value observe returned
World ==
    [pubs |-> pubs, source |-> source, sched |-> sched, loop |-> loop,
     thread |-> thread, hist |-> hist, exc |-> None, ret |-> TRUE]

SetWorld(w) ==
    /\ pubs' = w.pubs
    /\ source' = w.source
    /\ sched' = w.sched
    /\ loop' = w.loop
    /\ thread' = w.thread
    /\ hist' = w.hist

Raise(w, e) == [w EXCEPT !.exc = e]

\* a handle of the event loop and what it will call
Handle(id, task, s, d) ==
    [id |-> id, task |-> task, s |-> s, d |-> d, sub |-> None, kind |-> None,
     topic |-> None, val |-> 0]
CallHandle(id, s, sub, kind, topic, val) ==
    [id |-> id, task |-> "callback", s |-> s, d |-> None, sub |-> sub,
     kind |-> kind, topic |-> topic, val |-> val]

\* the values of active_schedules: a loop handle or a _stop_loop method
TimerRef(id) == [type |-> "handle", ref |-> id]
StopLoopRef(s) == [type |-> "thunk", ref |-> s]

InReady(w, id) == \E i \in 1..Len(w.loop.ready) : w.loop.ready[i].id = id

\* handle.cancel(): a pending timer is dropped, a ready handle is skipped
\* when its turn comes, a handle that has run or is running is not affected
CancelHandle(w, id) ==
    [w EXCEPT !.loop.timers = {x \in @ : x.id # id},
              !.loop.cancelled = IF InReady(w, id) THEN @ \cup {id} ELSE @]

\* event_loop.call_soon(task), keeping the handle
CallSoon(w, task, s, d) ==
    [w EXCEPT !.loop.nh = @ + 1,
              !.loop.ready = Append(@, Handle(w.loop.nh + 1, task, s, d))]

\* a loop that runs the handle posted last first
Post_Front(w, task, s, d) ==
    [w EXCEPT !.loop.ready = <<Handle(0, task, s, d)>> \o @]

\* event_loop.call_soon(task) / call_soon_threadsafe(task) where the caller
\* drops the handle (handle 0: it can never be cancelled)
Post(w, task, s, d) ==
    [w EXCEPT !.loop.ready = Append(@, Handle(0, task, s, d))]

\* event_loop.call_later(interval, task)
CallLater(w, task, s, d) ==
    [w EXCEPT !.loop.nh = @ + 1,
              !.loop.timers = @ \cup {Handle(w.loop.nh + 1, task, s, d)}]

\* _ThreadForIndirectPublisher._stop_loop, and the _stop_loop of a source
\* with a private event loop
StopLoop(w, s) == [w EXCEPT !.thread[s].stop_requested = TRUE]

\* Scheduler.stop: the loop over active_schedules.items()
RECURSIVE StopEach(_, _)
StopEach(w, todo) ==
    IF todo = {} THEN w
    ELSE LET s == CHOOSE x \in todo : TRUE
             h == w.sched.active_schedules[s]
         IN StopEach(IF h.type = "handle" THEN CancelHandle(w, h.ref)
                     ELSE StopLoop(w, h.ref),
                     todo \ {s})

\* the sources scheduled so far on the main loop
Cooperative(w) ==
    {s \in Sources : w.hist.disc[s] # <<>> /\ w.thread[s].state = "none"}

\* a Scheduler.stop that does not stop the event loop
Stop_LoopKeepsRunning(w) ==
    [StopEach(w, DOMAIN w.sched.active_schedules) EXCEPT
        !.sched.active_schedules = <<>>,
        !.hist.stopped = @ \cup Cooperative(w)]

\* Scheduler.stop
Stop(w) ==
    [StopEach(w, DOMAIN w.sched.active_schedules) EXCEPT
        !.sched.active_schedules = <<>>,
        !.loop.stopping = TRUE,
        !.hist.stopped = @ \cup Cooperative(w)]

Without(f, s) == [x \in (DOMAIN f) \ {s} |-> f[x]]
With(f, s, v) == [x \in (DOMAIN f) \cup {s} |-> IF x = s THEN v ELSE f[x]]

\* Scheduler._remove_from_active_schedules
RemoveFromActiveSchedules(w, s) ==
    IF s \notin DOMAIN w.sched.active_schedules THEN Raise(w, "KeyError")
    ELSE LET v == [w EXCEPT !.sched.active_schedules = Without(@, s)] IN
         IF DOMAIN v.sched.active_schedules = {} THEN Stop(v) ELSE v

\* a cancel closure that does nothing
Cancel_Noop(w, s) == w

\* a cancel closure that tolerates a source without a schedule
Cancel_Lenient(w, s) ==
    IF s \notin DOMAIN w.sched.active_schedules THEN w
    ELSE RemoveFromActiveSchedules(
            CancelHandle(w, w.sched.active_schedules[s].ref), s)

\* the cancel closure of schedule_periodic, schedule_recurring and
\* schedule_later_one_time (the publisher's unschedule hook)
Cancel(w, s) ==
    IF s \notin DOMAIN w.sched.active_schedules THEN Raise(w, "ScheduleError")
    ELSE LET h == w.sched.active_schedules[s] IN
         IF h.type # "handle" THEN Raise(w, "AttributeError")
         ELSE RemoveFromActiveSchedules(CancelHandle(w, h.ref), s)

\* Publisher._close_topic of the publisher of source s, on any thread
CloseTopicOf(w, s, t) ==
    IF t \notin DOMAIN w.pubs[s].subscribers THEN Raise(w, "KeyError")
    ELSE LET q == DropTopic(w.pubs[s], t)
             v == [w EXCEPT !.pubs[s] = q]
         IN IF HookDue(q)
            THEN LET u == Cancel([v EXCEPT !.hist.hooks[s] =
                                      Append(@, DOMAIN q.subscribers)], s)
                 IN IF u.exc # None THEN u
                    ELSE [u EXCEPT !.pubs[s] = ReleaseLinks(@)]
            ELSE v

\* a callback that ran: source, subscription, kind, topic, value, thread
Ran(s, sub, kind, topic, val, th) ==
    [s |-> s, sid |-> sub.id, kind |-> kind, topic |-> topic, val |-> val,
     th |-> th]

\* _dispatch_next / _dispatch_completed / _dispatch_error of the publisher
\* of source s, called on thread th. With an enqueue_fn the callbacks are
\* posted to the main loop; without, they run here, in list order, and the
\* one at position bad (if any) raises e.
DispatchOf(w0, s, kind, t, val, th, bad, e) ==
    LET w == [w0 EXCEPT !.hist.sent[s] = kind]
        p == w.pubs[s]
        found == Lookup(p, t)
        subs == p.subscribers[t]
        n == Len(subs)
    IN
    IF found # "ok" THEN Raise(w, found)
    ELSE IF kind = "next" /\ n = 0 THEN w
    ELSE IF p.enqueue_fn # None
    THEN LET v == [w EXCEPT
                     !.loop.ready = @ \o
                        [i \in 1..n |-> CallHandle(0, s, subs[i], kind, t,
                                                   val)]]
         IN IF kind \in Terminal THEN CloseTopicOf(v, s, t) ELSE v
    ELSE LET k == IF bad \in 1..n THEN bad ELSE n
             v == [w EXCEPT !.hist.log = @ \o
                      [i \in 1..k |-> Ran(s, subs[i], kind, t, val, th)],
                            !.hist.converted =
                               IF kind = "error" /\ w.hist.inobs[s]
                               THEN @ \cup {s} ELSE @]
         IN IF bad \in 1..n
            THEN [v EXCEPT !.exc = Conv(e), !.hist.cbraised = TRUE,
                           !.hist.inobs[s] =
                              (@ \/ (kind = "next" /\ e \notin FatalErrors))]
            ELSE IF kind \in Terminal THEN CloseTopicOf(v, s, t) ELSE v

\* Publisher._schedule
ScheduleLinks(p, hook, enq) ==
    [p EXCEPT !.unschedule_hook = hook, !.enqueue_fn = enq]

\* a worker thread that forgets to pass its enqueue_fn
WorkerLinks_NoEnqueue(p) == ScheduleLinks(p, None, None)

\* publisher._schedule(unschedule_hook=None, enqueue_fn=enqueue_fn), the
\* first statement of both kinds of worker thread
WorkerLinks(p) == ScheduleLinks(p, None, "enqueue_fn")

\* an _observe / _observe_and_enqueue of source s begins
Started(w, s) ==
    [w EXCEPT !.hist.observes[s] = @ + 1,
              !.hist.inobs[s] = FALSE,
              !.hist.sent[s] = None,
              !.hist.late[s] = IF s \in w.hist.cancelled THEN @ + 1 ELSE @,
              !.hist.afterstop = IF s \in w.hist.stopped THEN @ \cup {s}
                                 ELSE @,
              !.hist.unlisted = IF s \in DOMAIN w.sched.active_schedules
                                THEN @ ELSE @ \cup {s}]

\* an iterable source that never calls its close hook
Close_Skipped(w, s) == w

\* IterableAsPublisher._close, as called by _observe: the hook is counted
Close(w, s) == [w EXCEPT !.source[s].closes = @ + 1]

\* IterableAsPublisher._observe (SensorPublisher._observe has the same
\* shape): one element is dispatched as next; at the end of the sequence
\* _close is called and completed or error dispatched, or the FatalError of
\* the iterable is passed on
ObserveIterable(w, s, th, bad, e) ==
    LET src == w.source[s]
        w0 == Started(w, s)
        closed == Close(w0, s)
    IN
    IF src.pos < src.n
    THEN LET v == DispatchOf([w0 EXCEPT !.source[s].pos = @ + 1], s, "next",
                             "default", src.pos + 1, th, bad, e)
         IN IF v.exc = None THEN [v EXCEPT !.ret = TRUE]
            ELSE IF v.exc \in FatalErrors
            THEN Close(v, s)
            ELSE [DispatchOf([Close(v, s) EXCEPT !.exc = None],
                             s, "error", "default", 0, th, bad, e)
                    EXCEPT !.ret = FALSE]
    ELSE IF src.ends = "stop"
    THEN [DispatchOf(closed, s, "completed", "default", 0, th, bad, e)
            EXCEPT !.ret = FALSE]
    ELSE IF src.ends = "exception"
    THEN [DispatchOf(closed, s, "error", "default", 0, th, bad, e)
            EXCEPT !.ret = FALSE]
    ELSE Raise(closed, "FatalError")

\* FunctionIteratorAsPublisher._observe: the first call dispatches the value
\* of the initial state, a later call steps to the next state and dispatches
\* its value (and returns None); completed is dispatched when condition
\* fails for the current state. 'except Exception' takes every exception of
\* the try block, a FatalError of a dispatch included, and dispatches error
\* (its on_error callbacks return)
ObserveFunction(w, s, th, bad, e) ==
    LET src == w.source[s]
        w0 == [Started(w, s) EXCEPT !.source[s].first = FALSE]
        try == IF src.pos >= src.n
               THEN [DispatchOf(w0, s, "completed", "default", 0, th, bad, e)
                       EXCEPT !.ret = FALSE]
               ELSE IF src.first
               THEN [DispatchOf(w0, s, "next", "default", src.pos + 1, th,
                                bad, e) EXCEPT !.ret = TRUE]
               ELSE [DispatchOf([w0 EXCEPT !.source[s].pos = @ + 1], s, "next",
                                "default", src.pos + 2, th, bad, e)
                       EXCEPT !.ret = FALSE]
    IN IF try.exc = None THEN try
       ELSE [DispatchOf([try EXCEPT !.exc = None], s, "error", "default", 0,
                        th, 0, e) EXCEPT !.ret = FALSE]

OpenTopics(w, s) == DOMAIN w.pubs[s].subscribers

\* an _observe that follows the DirectPublisherMixin contract for a source
\* with several topics: it dispatches the event (kind, t) its environment
\* has and returns whether more data can follow (a topic is still open)
ObserveAny(w, s, kind, t, th, bad, e) ==
    LET v == DispatchOf(Started(w, s), s, kind, t,
                        w.hist.observes[s] + 1, th, bad, e)
    IN [v EXCEPT !.ret = (OpenTopics(v, s) # {})]

\* what the _observe of source s returned, or the exception it raised
Returned(v, s) ==
    [v EXCEPT !.hist.ret[s] = IF v.exc # None THEN v.exc
                              ELSE IF v.ret THEN "True" ELSE "False"]

\* source._observe() / source._observe_and_enqueue()
Observe(w, s, kind, t, th, bad, e) ==
    Returned(IF w.source[s].kind = "function"
             THEN ObserveFunction(w, s, th, bad, e)
             ELSE IF s = "a" THEN ObserveIterable(w, s, th, bad, e)
             ELSE ObserveAny(w, s, kind, t, th, bad, e), s)

\* the events the environment of source s may have for the next observe:
\* the iterable source takes none; the other dispatches on an open topic
\* (on "default" once all are closed) and closes its topics with completed
\* (errors reach the subscribers through source "a")
EventChoices(s) ==
    IF s = "a" THEN {<<None, None>>}
    ELSE {<<k, t>> : k \in {"next", "completed"},
                     t \in IF DOMAIN pubs[s].subscribers = {} THEN {"default"}
                           ELSE DOMAIN pubs[s].subscribers}

\* run() of schedule_periodic (d = "periodic") and of schedule_recurring
RunDirect(w, s, d, kind, t, bad, e) ==
    IF s \notin DOMAIN w.sched.active_schedules
    THEN Raise([w EXCEPT !.hist.asserted = @ \cup {"scheduled"}],
               "AssertionError")
    ELSE LET v == Observe(w, s, kind, t, "main", bad, e) IN
         IF v.exc # None THEN v
         ELSE IF v.ret /\ s \in DOMAIN v.sched.active_schedules
         THEN LET u == IF d = "periodic" THEN CallLater(v, "run", s, d)
                       ELSE CallSoon(v, "run", s, d)
              IN [u EXCEPT !.sched.active_schedules[s] = TimerRef(u.loop.nh),
                           !.pubs[s] = ScheduleLinks(@, "cancel", None)]
         ELSE IF ~(v.ret \/ s \notin DOMAIN v.sched.active_schedules)
         THEN Raise([v EXCEPT !.hist.asserted = @ \cup {"more or removed"}],
                    "AssertionError")
         ELSE v

\* Scheduler.schedule_periodic / schedule_recurring / schedule_later_one_time
ScheduleDirect(w, s, d) ==
    LET u == IF d = "recurring" THEN CallSoon(w, "run", s, d)
             ELSE CallLater(w, "run", s, d)
    IN [u EXCEPT !.sched.active_schedules = With(@, s, TimerRef(u.loop.nh)),
                 !.pubs[s] = ScheduleLinks(@, "cancel", None)]

\* run() of schedule_later_one_time; with re a discipline, the source's
\* _observe ends by scheduling the source again with it
RunOneTime(w, s, kind, t, bad, e, re) ==
    IF s \notin DOMAIN w.sched.active_schedules
    THEN Raise(w, "AssertionError")
    ELSE LET v == RemoveFromActiveSchedules(w, s) IN
         IF v.exc # None THEN v
         ELSE LET o == Observe(v, s, kind, t, "main", bad, e) IN
              IF o.exc # None \/ re = None THEN o
              ELSE ScheduleDirect([o EXCEPT !.hist.disc[s] = Append(@, re),
                                            !.hist.self = @ \cup {s},
                                            !.hist.stopped = @ \ {s}],
                                  s, re)

\* Scheduler.schedule_periodic_on_separate_thread /
\* schedule_on_private_event_loop: the thread is created, its _stop_loop goes
\* into the table and t.start is posted to the loop
ScheduleWorker(w, s, d) ==
    LET u == Post(w, "start", s, d) IN
    [u EXCEPT !.thread[s] = [NoThread EXCEPT !.state = "created",
                                             !.discipline = d],
              !.sched.active_schedules = With(@, s, StopLoopRef(s))]

\* exception_handler of Scheduler.__init__: fatal_error becomes the message
\* of the loop's context ("Exception in callback ..."), whatever was raised
ExceptionHandler(w) ==
    Stop([w EXCEPT !.sched.fatal_error = "Exception in callback",
                   !.exc = None])

\* ------------------------------------------------------------------ Init
Init ==
    /\ pub = NewPublisher(DeclaredTopics)
    /\ stack = <<>>
    /\ loopq = <<>>
    /\ handles = <<>>
    /\ trace = <<>>
    /\ last = Result("init", None, None, NoArg, 0, "ok", {})
    /\ ncalls = 0
    /\ hookCalls = 0
    /\ termDone = {}
    /\ raised = FALSE
    /\ pubs = [s \in Sources |-> SourcePublisher(s)]
    /\ source = [s \in Sources |-> NewSource(0, "stop")]
    /\ sched = NewScheduler
    /\ loop = NewEventLoop
    /\ thread = [s \in Sources |-> NoThread]
    /\ hist = NoHistory
    /\ chain = None
    /\ bridge = None
    /\ csv = None
    /\ shared = None

\* --------------------------------------------------------------- actions
\* Publisher.subscribe(subscriber, (pub_topic, sub_topic)), called by the
\* main program or by the callback that is running.
Subscribe(s, pt, st) ==
    LET id == Len(handles) + 1
        sub == Subscription(id, s, st)
        exc == SubscribeCheck(pub, s, pt, st)
    IN
    IF exc = "ok"
    THEN /\ Len(handles) < MaxSubscriptions
         /\ pub' = [pub EXCEPT !.subscribers[pt] = Append(@, sub)]
         /\ handles' = Append(handles, [pub_topic |-> pt, subscription |-> sub,
                                     since |-> ncalls])
         /\ last' = Result("subscribe", None, pt, <<s, st>>, id, "ok", {})
         /\ UNCHANGED <<stack, loopq, trace, ncalls, hookCalls, termDone,
                        raised>>
    ELSE /\ stack' = <<>>
         /\ last' = Result("subscribe", None, pt, <<s, st>>, 0, exc, EscSet(exc, stack))
         /\ raised' = TRUE
         /\ UNCHANGED <<pub, loopq, handles, trace, ncalls, hookCalls,
                        termDone>>

\* the dispose closure number h, called by the main program or by the
\* callback that is running
Dispose(h) ==
    LET pt == handles[h].pub_topic
        sub == handles[h].subscription
        i == IF pt \in DOMAIN pub.subscribers
             THEN FirstEq(pub.subscribers[pt], sub) ELSE 0
        exc == IF pt \notin DOMAIN pub.subscribers THEN "KeyError"
               ELSE IF i = 0 THEN "ValueError" ELSE "ok"
    IN
    /\ h \in 1..Len(handles)
    /\ IF exc = "ok"
       THEN /\ pub' = [pub EXCEPT !.subscribers[pt] = RemoveAt(@, i)]
            /\ last' = Result("dispose", None, pt, NoArg, h, "ok", {})
            /\ UNCHANGED <<stack, raised>>
       ELSE /\ stack' = <<>>
            /\ last' = Result("dispose", None, pt, NoArg, h, exc, EscSet(exc, stack))
            /\ raised' = TRUE
            /\ UNCHANGED pub
    /\ UNCHANGED <<loopq, handles, trace, ncalls, hookCalls, termDone>>

\* Publisher._schedule as the scheduler calls it: with (cancel, None) for a
\* source driven on the main loop, with (None, enqueue_fn) for a source
\* driven by a worker thread
Schedule(how) ==
    /\ stack = <<>>
    /\ ncalls = 0
    /\ pub.unschedule_hook = None /\ pub.enqueue_fn = None
    /\ how \in {"direct", "worker"}
    /\ pub' = [pub EXCEPT
                 !.unschedule_hook = IF how = "direct" THEN "cancel" ELSE None,
                 !.enqueue_fn = IF how = "worker" THEN "enqueue_fn" ELSE None]
    /\ last' = Result("schedule", None, None, NoArg, 0, "ok", {})
    /\ UNCHANGED <<stack, loopq, handles, trace, ncalls, hookCalls, termDone,
                   raised>>

\* the calls one routed dispatch posts: enq(s.on_<kind>, x) for s in subscribers
Posted(subs, kind, topic, val) ==
    [i \in 1..Len(subs) |->
        [sub |-> subs[i], kind |-> kind, topic |-> topic, val |-> val]]

\* _dispatch_next / _dispatch_completed / _dispatch_error (by kind) on topic
\* t. Without enqueue_fn the caller is the main program or the callback that
\* is running ("main"); a publisher that was given an enqueue_fn is called
\* by its worker thread ("worker"), whose exceptions stay on that thread.
\* The event dispatched is numbered by the call.
Dispatch(kind, t) ==
    LET val == ncalls + 1
        who == IF pub.enqueue_fn # None THEN "worker" ELSE "main"
        found == Lookup(pub, t)
        subs == pub.subscribers[t]
        enq == pub.enqueue_fn
    IN
    /\ ncalls < MaxCalls
    /\ who = "main" => Len(stack) < MaxDepth
    /\ ncalls' = ncalls + 1
    /\ UNCHANGED handles
    /\ IF found # "ok"
       THEN \* raise TopicAlreadyClosed / UnknownTopicError
            /\ stack' = IF who = "main" THEN <<>> ELSE stack
            /\ last' = Result("dispatch", kind, t, NoArg, 0, found,
                              {found} \cup (IF who = "main"
                                            THEN EscSet(found, stack) ELSE {}))
            /\ raised' = TRUE
            /\ trace' = Append(trace, Call(kind, t, val))
            /\ UNCHANGED <<pub, loopq, hookCalls, termDone>>
       ELSE IF kind = "next" /\ subs = <<>>
       THEN \* if len(subscribers) == 0: return
            /\ last' = Result("dispatch", kind, t, NoArg, 0, "ok", {})
            /\ trace' = Append(trace, Call(kind, t, val))
            /\ UNCHANGED <<pub, stack, loopq, hookCalls, termDone, raised>>
       ELSE IF enq # None
       THEN \* for s in subscribers: enq(s.on_<kind>, x); then _close_topic
            /\ loopq' = loopq \o Posted(subs, kind, t, val)
            /\ pub' = IF kind \in Terminal THEN CloseTopic(pub, t) ELSE pub
            /\ hookCalls' = IF kind \in Terminal /\ HookFires(pub, t)
                            THEN hookCalls + 1 ELSE hookCalls
            /\ termDone' = IF kind \in Terminal THEN termDone \cup {t}
                           ELSE termDone
            /\ last' = Result("dispatch", kind, t, NoArg, 0, "ok", {})
            /\ trace' = Append(trace, Call(kind, t, val))
            /\ UNCHANGED <<stack, raised>>
       ELSE IF subs = <<>>
       THEN \* a terminal event on a topic without subscribers: _close_topic
            /\ pub' = CloseTopic(pub, t)
            /\ hookCalls' = IF HookFires(pub, t) THEN hookCalls + 1
                            ELSE hookCalls
            /\ termDone' = termDone \cup {t}
            /\ last' = Result("dispatch", kind, t, NoArg, 0, "ok", {})
            /\ trace' = Append(trace, Call(kind, t, val))
            /\ UNCHANGED <<stack, loopq, raised>>
       ELSE \* inline: the loop over the list read at entry starts, the
            \* first subscriber's callback is entered
            /\ stack' = Append(stack, [mode |-> "inline", kind |-> kind,
                                       topic |-> t, val |-> val, subs |-> subs,
                                       idx |-> 1])
            /\ trace' = trace \o <<Call(kind, t, val), Cb(subs[1], kind, t, val)>>
            /\ last' = Result("dispatch", kind, t, NoArg, subs[1].id, "pending", {})
            /\ UNCHANGED <<pub, loopq, hookCalls, termDone, raised>>

\* the main loop runs the next posted call: a subscriber callback is entered
RunTask ==
    /\ stack = <<>>
    /\ loopq # <<>>
    /\ LET c == Head(loopq) IN
         /\ stack' = <<[mode |-> "task", kind |-> c.kind, topic |-> c.topic,
                        val |-> c.val, subs |-> <<c.sub>>, idx |-> 1]>>
         /\ trace' = Append(trace, Cb(c.sub, c.kind, c.topic, c.val))
         /\ last' = Result("task", c.kind, c.topic, NoArg, c.sub.id, "pending", {})
    /\ loopq' = Tail(loopq)
    /\ UNCHANGED <<pub, handles, ncalls, hookCalls, termDone, raised>>

\* the running callback returns. In an inline dispatch the loop goes on to
\* the next subscriber of the list read at entry; after the last one a
\* terminal dispatch calls _close_topic, whose del raises KeyError (outside
\* the try) when the key is gone.
CbReturn ==
    /\ stack # <<>>
    /\ LET f == Top(stack) IN
       IF f.idx < Len(f.subs)
       THEN /\ stack' = [stack EXCEPT ![Len(stack)].idx = f.idx + 1]
            /\ trace' = Append(trace, Cb(f.subs[f.idx + 1], f.kind, f.topic, f.val))
            /\ last' = Result("callback", f.kind, f.topic, NoArg, f.subs[f.idx + 1].id,
                              "pending", {})
            /\ UNCHANGED <<pub, hookCalls, termDone, raised>>
       ELSE IF f.mode = "inline" /\ f.kind \in Terminal
       THEN IF f.topic \in DOMAIN pub.subscribers
            THEN /\ pub' = CloseTopic(pub, f.topic)
                 /\ hookCalls' = IF HookFires(pub, f.topic) THEN hookCalls + 1
                                 ELSE hookCalls
                 /\ termDone' = termDone \cup {f.topic}
                 /\ stack' = Front(stack)
                 /\ last' = Result("return", f.kind, f.topic, NoArg, 0, "ok", {})
                 /\ UNCHANGED <<trace, raised>>
            ELSE /\ stack' = <<>>
                 /\ last' = Result("return", f.kind, f.topic, NoArg, 0,
                                   TopExc("KeyError", Front(stack)),
                                   {"KeyError"} \cup EscSet("KeyError", Front(stack)))
                 /\ raised' = TRUE
                 /\ UNCHANGED <<pub, hookCalls, termDone, trace>>
       ELSE /\ stack' = Front(stack)
            /\ last' = Result("return", f.kind, f.topic, NoArg, 0, "ok", {})
            /\ UNCHANGED <<pub, hookCalls, termDone, trace, raised>>
    /\ UNCHANGED <<loopq, handles, ncalls>>

\* the running callback raises e
CbRaise(e) ==
    /\ stack # <<>>
    /\ stack' = <<>>
    /\ last' = Result("raise", Top(stack).kind, Top(stack).topic, NoArg,
                      Top(stack).subs[Top(stack).idx].id,
                      TopExc(e, stack), EscSet(e, stack))
    /\ raised' = TRUE
    /\ UNCHANGED <<pub, loopq, handles, trace, ncalls, hookCalls, termDone>>

Budget(n) == ncalls + Len(handles) < n

Next ==
    \/ \E s \in Subscribers, pt \in DeclaredTopics :
          Budget(MaxWork) /\ Subscribe(s, pt, "default")
                          /\ UNCHANGED notPub
    \/ \E h \in 1..MaxSubscriptions : Dispose(h) /\ UNCHANGED notPub
    \/ Schedule("worker") /\ UNCHANGED notPub
    \/ \E k \in Kinds, t \in DeclaredTopics :
          Budget(MaxWork) /\ Dispatch(k, t) /\ UNCHANGED notPub
    \/ RunTask /\ UNCHANGED notPub
    \/ CbReturn /\ UNCHANGED notPub
    \/ \E e \in CallbackRaises : CbRaise(e) /\ UNCHANGED notPub

Spec == Init /\ [][Next]_vars

\* ------------------------------------------- scheduler: Init and actions
\* the program has built its publishers, subscribed to them and created
\* the Scheduler
SchedInit ==
    /\ pub = NewPublisher(DeclaredTopics)
    /\ stack = <<>>
    /\ loopq = <<>>
    /\ handles = <<>>
    /\ trace = <<>>
    /\ last = Result("init", None, None, NoArg, 0, "ok", {})
    /\ ncalls = 0
    /\ hookCalls = 0
    /\ termDone = {}
    /\ raised = FALSE
    /\ pubs = [s \in Sources |-> SourcePublisher(s)]
    /\ source = [s \in Sources |-> NewSource(0, "stop")]
    /\ sched = NewScheduler
    /\ loop = NewEventLoop
    /\ thread = [s \in Sources |-> NoThread]
    /\ hist = NoHistory
    /\ chain = None
    /\ bridge = None
    /\ csv = None
    /\ shared = None

ScheduleCalls == Len(hist.disc["a"]) + Len(hist.disc["b"])

\* the program calls scheduler.schedule_<d>(s), before run_forever or after
\* it has ended. A source is given to the worker-thread disciplines at most
\* once and is not moved between them and the main-loop disciplines; the
\* source with several topics is driven by the main-loop disciplines. What
\* source "a" is is the program's choice: an IterableAsPublisher whose
\* iterable yields n elements and then ends one way or another, or a
\* FunctionIteratorAsPublisher whose condition holds for n states.
CallSchedule(s, d) ==
    /\ loop.state # "running"
    /\ hist.runs < MaxRuns
    /\ hist.runs > 0 => /\ d \in DirectDisciplines
                        /\ \A x \in Sources : thread[x].state = "none"
    /\ ScheduleCalls < MaxScheduleCalls
    /\ IF d \in WorkerDisciplines
       THEN /\ hist.disc[s] = <<>>
            /\ s = "a"
            /\ Cardinality({x \in Sources : thread[x].state # "none"})
                  < MaxWorkers
       ELSE \A i \in 1..Len(hist.disc[s]) : hist.disc[s][i] \in DirectDisciplines
    /\ \E n \in 0..MaxItems, ends \in {"stop", "exception", "fatal"},
          k \in {"iterable", "function"} :
          /\ (s # "a" \/ hist.disc[s] # <<>>)
                => (n = 0 /\ ends = "stop" /\ k = "iterable")
          /\ k = "function" => ends = "stop" /\ d \in DirectDisciplines
          /\ LET w == [World EXCEPT
                         !.hist.disc[s] = Append(@, d),
                         !.hist.cancelled = @ \ {s},
                         !.hist.stopped = @ \ {s},
                         !.hist.again = (@ \/ hist.runs > 0),
                         !.source[s] = IF s = "a" /\ hist.disc[s] = <<>>
                                       THEN IF k = "function"
                                            THEN NewFunctionSource(n)
                                            ELSE NewSource(n, ends)
                                       ELSE @]
             IN SetWorld(IF d \in WorkerDisciplines
                         THEN ScheduleWorker(w, s, d)
                         ELSE ScheduleDirect(w, s, d))
    /\ UNCHANGED notSched

\* after the last handle of an iteration run_forever tests the stop flag:
\* it returns, or raises ScheduleError when fatal_error is set
EndOfIteration(w) ==
    IF w.loop.state = "running" /\ w.loop.batch = 0 /\ w.loop.stopping
    THEN [w EXCEPT !.loop.state = IF w.sched.fatal_error # None THEN "raised"
                                  ELSE "returned",
                   !.loop.stopping = FALSE]
    ELSE w

\* a call made by a task of the main loop has returned or raised: an
\* exception goes to the scheduler's exception handler
TaskDone(w) == EndOfIteration(IF w.exc # None THEN ExceptionHandler(w) ELSE w)

\* the program calls the cancel handle that its last schedule call for s
\* returned (cancel, or the _stop_loop of the thread or source): before
\* run_forever, or from a task of its own that the loop runs between two
\* iterations
UserCancel(s) ==
    /\ loop.state \in {"idle", "running"}
    /\ loop.batch = 0
    /\ \/ hist.user < MaxUserCalls
       \/ /\ s \in hist.cancelled
          /\ hist.user < MaxUserCalls + MaxCancelAgain
          /\ \A x \in Sources : thread[x].state = "none"
    /\ hist.disc[s] # <<>>
    /\ LET d == hist.disc[s][Len(hist.disc[s])]
           w == [World EXCEPT !.hist.user = @ + 1,
                              !.hist.cancelled = @ \cup {s}]
           u == IF d \in DirectDisciplines THEN Cancel(w, s) ELSE StopLoop(w, s)
           v == [u EXCEPT !.hist.cancels =
                    Append(@, CancelCall(s, d,
                                         s \notin DOMAIN sched.active_schedules,
                                         u.exc,
                                         u.sched = sched /\ u.loop = loop))]
       IN SetWorld(IF loop.state = "running" THEN TaskDone(v) ELSE v)
    /\ UNCHANGED notSched

\* the program calls scheduler.stop(), likewise
UserStop ==
    /\ loop.state \in {"idle", "running"}
    /\ loop.batch = 0
    /\ hist.user < MaxUserCalls
    /\ LET v == Stop([World EXCEPT !.hist.user = @ + 1]) IN
       SetWorld(IF loop.state = "running" THEN TaskDone(v) ELSE v)
    /\ UNCHANGED notSched

\* Scheduler.run_forever is called (a second time only by a program that
\* started no worker thread)
RunForever ==
    /\ loop.state # "running"
    /\ ScheduleCalls > 0
    /\ hist.runs < MaxRuns
    /\ hist.runs > 0 => \A s \in Sources : thread[s].state = "none"
    /\ loop' = [loop EXCEPT !.state = "running"]
    /\ hist' = [hist EXCEPT !.runs = @ + 1]
    /\ UNCHANGED <<notSched, pubs, source, sched, thread>>

\* the handles of a set, in the order they were created
RECURSIVE InOrder(_)
InOrder(hs) ==
    IF hs = {} THEN <<>>
    ELSE LET h == CHOOSE x \in hs : \A y \in hs : x.id <= y.id
         IN <<h>> \o InOrder(hs \ {h})

\* one iteration of the loop starts: the timers that are due join the ready
\* queue and everything ready now forms the batch of this iteration. With
\* nothing ready the loop waits, unless it was asked to stop.
BeginIteration(due) ==
    /\ loop.state = "running"
    /\ loop.batch = 0
    /\ due \subseteq loop.timers
    /\ LET r == loop.ready \o InOrder(due) IN
       /\ r # <<>> \/ loop.stopping
       /\ SetWorld(EndOfIteration(
             [World EXCEPT !.loop.ready = r, !.loop.timers = @ \ due,
                           !.loop.batch = Len(r)]))
    /\ UNCHANGED notSched

\* the loop takes the next handle of the batch off the ready queue
Taken ==
    [World EXCEPT !.loop.ready = Tail(@), !.loop.batch = @ - 1,
                  !.loop.cancelled = @ \ {Head(loop.ready).id}]

\* the next handle of the batch is one with this task, not cancelled
NextHandleIs(task) ==
    /\ loop.state = "running"
    /\ loop.batch > 0
    /\ Head(loop.ready).task = task
    /\ Head(loop.ready).id \notin loop.cancelled

\* the next handle of the batch was cancelled: the loop drops it
SkipCancelled ==
    /\ loop.state = "running"
    /\ loop.batch > 0
    /\ Head(loop.ready).id \in loop.cancelled
    /\ SetWorld(EndOfIteration(Taken))
    /\ UNCHANGED notSched

\* the loop runs run() of a direct schedule; the subscriber callback at
\* position bad (0: none) raises e; the _observe of a one-time schedule may
\* schedule the source again (re)
RunSchedule(bad, e, re) ==
    /\ NextHandleIs("run")
    /\ LET h == Head(loop.ready) IN
       /\ re # None => h.d = "one_time" /\ ScheduleCalls < MaxScheduleCalls
       /\ \E ev \in EventChoices(h.s) :
             /\ h.s = "b" => hist.observes[h.s] < MaxObserve
             /\ SetWorld(TaskDone(
                   IF h.d = "one_time"
                   THEN RunOneTime(Taken, h.s, ev[1], ev[2], bad, e, re)
                   ELSE RunDirect(Taken, h.s, h.d, ev[1], ev[2], bad, e)))
    /\ UNCHANGED notSched

\* the loop runs t.start: the worker thread begins
StartThread ==
    /\ NextHandleIs("start")
    /\ LET h == Head(loop.ready) IN
       SetWorld(TaskDone([Taken EXCEPT !.thread[h.s].state = "started"]))
    /\ UNCHANGED notSched

\* the loop runs a subscriber callback that a worker thread posted through
\* enqueue_fn; it returns (e = None) or raises e
RunCallback(e) ==
    /\ NextHandleIs("callback")
    /\ LET h == Head(loop.ready)
           v == [Taken EXCEPT !.hist.log =
                    Append(@, Ran(h.s, h.sub, h.kind, h.topic, h.val, "main"))]
       IN SetWorld(TaskDone(IF e = None THEN v
                            ELSE [v EXCEPT !.exc = e, !.hist.cbraised = TRUE]))
    /\ UNCHANGED notSched

\* the loop runs done() / loop_done() posted by a worker thread that ended
\* normally
RunDone ==
    /\ NextHandleIs("done")
    /\ SetWorld(TaskDone(RemoveFromActiveSchedules(Taken, Head(loop.ready).s)))
    /\ UNCHANGED notSched

\* the loop runs die() posted by a worker thread that ended by an exception:
\* del active_schedules[publisher]; raise ScheduleError
RunDie ==
    /\ NextHandleIs("die")
    /\ LET s == Head(loop.ready).s IN
       SetWorld(TaskDone(
          IF s \notin DOMAIN sched.active_schedules THEN Raise(Taken, "KeyError")
          ELSE Raise([Taken EXCEPT !.sched.active_schedules = Without(@, s),
                                   !.hist.direct = @ \cup {s}],
                     "ScheduleError")))
    /\ UNCHANGED notSched

\* the worker thread of s executes publisher._schedule(None, enqueue_fn)
WorkerSchedule(s) ==
    /\ thread[s].state = "started"
    /\ pubs' = [pubs EXCEPT ![s] = WorkerLinks(@)]
    /\ thread' = [thread EXCEPT ![s].state = "running"]
    /\ UNCHANGED <<notSched, source, sched, loop, hist>>

\* the worker thread of s begins a round of its loop with the test of
\* stop_requested: it leaves the loop when asked to stop, else goes on to
\* call the source
WorkerCheck(s) ==
    /\ thread[s].state = "running"
    /\ thread' = [thread EXCEPT ![s].state = IF thread[s].stop_requested
                                             THEN "finished" ELSE "observing"]
    /\ UNCHANGED <<notSched, pubs, source, sched, loop, hist>>

\* the worker thread of s lets the source dispatch one event; the thread
\* ends when the source has no more or raises
WorkerObserve(s, bad, e) ==
    /\ thread[s].state = "observing"
    /\ \E ev \in EventChoices(s) :
          /\ s = "b" => hist.observes[s] < MaxObserve
          /\ LET v == Observe(World, s, ev[1], ev[2], "worker", bad, e) IN
             SetWorld([v EXCEPT !.thread[s].state =
                          IF v.exc # None THEN "failed"
                          ELSE IF v.ret THEN "running" ELSE "finished",
                                !.thread[s].error = (v.exc # None)])
    /\ UNCHANGED notSched

\* the worker thread of s ends: it posts done (loop_done) or die to the loop
WorkerExit(s) ==
    /\ thread[s].state \in {"finished", "failed"}
    /\ SetWorld([Post(World, IF thread[s].state = "failed" THEN "die"
                             ELSE "done", s, thread[s].discipline)
                   EXCEPT !.thread[s].state = "dead"])
    /\ UNCHANGED notSched

SchedNext ==
    \/ \E s \in Sources, d \in DirectDisciplines \cup WorkerDisciplines :
          CallSchedule(s, d)
    \/ \E s \in Sources : UserCancel(s)
    \/ UserStop
    \/ RunForever
    \/ \E due \in SUBSET loop.timers : BeginIteration(due)
    \/ SkipCancelled
    \/ \E bad \in 0..1, e \in CallbackRaises,
          re \in {None} \cup DirectDisciplines : RunSchedule(bad, e, re)
    \/ StartThread
    \/ \E e \in {None} \cup CallbackRaises : RunCallback(e)
    \/ RunDone
    \/ RunDie
    \/ \E s \in Sources : WorkerSchedule(s)
    \/ \E s \in Sources : WorkerCheck(s)
    \/ \E s \in Sources, bad \in 0..1, e \in CallbackRaises :
          WorkerObserve(s, bad, e)
    \/ \E s \in Sources : WorkerExit(s)

SpecSched == SchedInit /\ [][SchedNext]_vars

\* the same publisher, called with every kind of argument
NextArgs ==
    \/ \E s \in SubscriberArgs, pt \in TopicArgs, st \in SubTopicArgs :
          Budget(MaxArgsWork) /\ Subscribe(s, pt, st) /\ UNCHANGED notPub
    \/ \E h \in 1..MaxSubscriptions : Dispose(h) /\ UNCHANGED notPub
    \/ \E how \in {"direct", "worker"} : Schedule(how) /\ UNCHANGED notPub
    \/ \E k \in Kinds, t \in TopicArgs :
          Budget(MaxArgsWork) /\ Dispatch(k, t) /\ UNCHANGED notPub
    \/ RunTask /\ UNCHANGED notPub
    \/ CbReturn /\ UNCHANGED notPub
    \/ \E e \in CallbackRaises : CbRaise(e) /\ UNCHANGED notPub

SpecArgs == Init /\ [][NextArgs]_vars

\* ---------------------------------------------------- filters and take
\* Specification SpecFilter drives five pipelines with one upstream stream:
\* source.take(m), source.take(n).take(m), source followed by a Filter
\* whose on_next hook is given by the program, source.take_last(c) and
\* source.last(default). Every pipeline ends in a
\* sink that records what it receives. One step is one _dispatch_* call of
\* the sources; the calls it makes down the pipeline are inline.
Pipelines == {"take", "take_take", "filter", "take_last", "last"}

\* what the program's on_next hook does with an event: forward it with
\* self._dispatch_next, raise a FatalError, raise another Exception
HookChoices == {None} \cup CallbackRaises

\* the subscription of stage j to the stage before it (Filter.__init__:
\* previous_in_chain.subscribe(self)); the sink is the stage after the last
StageLink(j) ==
    [id |-> 1, subscriber |-> <<"stage", j>>, sub_topic |-> "default"]

\* a stage of a pipeline: its Publisher (the default topic, the next stage
\* subscribed), and the closure variables of its hooks: count, remaining
\* and completed of take, count and q of take_last, default, value and
\* seen_value of last
Stage(i, kind, count) ==
    [p |-> [NewPublisher(DeclaredTopics) EXCEPT
                !.subscribers = [t \in DeclaredTopics |-> <<StageLink(i + 1)>>]],
     kind |-> kind, count |-> count, remaining |-> count,
     completed |-> FALSE, q |-> <<>>, default |-> None, value |-> None,
     seen_value |-> FALSE]

\* take(count) with count > 0: remaining = [count], completed = [False]
TakeStage(i, count) == Stage(i, "take", count)

\* take_last(count): q = []
TakeLastStage(i, count) == Stage(i, "take_last", count)

\* last(default): value = [default], seen_value = [False]
LastStage(i, default) ==
    [Stage(i, "last", 0) EXCEPT !.default = default, !.value = default]

\* the default arguments of last that the program tries
Defaults == {None, "default_value"}

\* a pipeline after construction. out: what the sink has received; exc:
\* what the call in progress raises; hook, errs, disposed: history of
\* the last call of the source (what the hook did, error callbacks the sink
\* got, whether Filter.on_next called self.dispose)
Pipeline(stages) ==
    [stages |-> stages, out |-> <<>>, exc |-> None,
     hook |-> "idle", errs |-> 0, disposed |-> FALSE]

NewChain(n, m, c, d) ==
    [n |-> n, m |-> m, c |-> c, d |-> d, stream |-> <<>>, ended |-> FALSE,
     pipes |-> [x \in Pipelines |->
        CASE x = "take" ->
                Pipeline(<<Stage(1, "source", 0), TakeStage(2, m)>>)
          [] x = "take_take" ->
                Pipeline(<<Stage(1, "source", 0), TakeStage(2, n),
                           TakeStage(3, m)>>)
          [] x = "filter" ->
                Pipeline(<<Stage(1, "source", 0), Stage(2, "hook", 0)>>)
          [] x = "take_last" ->
                Pipeline(<<Stage(1, "source", 0), TakeLastStage(2, c)>>)
          [] x = "last" ->
                Pipeline(<<Stage(1, "source", 0), LastStage(2, d)>>)]]

Event(kind, val) == [kind |-> kind, val |-> val]

\* the dispose closure of subscribe, called on publisher p for subscription
\* sub: a KeyError if the topic is gone, a ValueError if sub is not listed
Unsubscribe(p, t, sub) ==
    IF t \notin DOMAIN p.subscribers THEN [p |-> p, exc |-> "KeyError"]
    ELSE IF FirstEq(p.subscribers[t], sub) = 0
         THEN [p |-> p, exc |-> "ValueError"]
    ELSE [p |-> [p EXCEPT !.subscribers[t] =
                    RemoveAt(@, FirstEq(@, sub))],
          exc |-> None]

\* take.on_next: if remaining[0] > 0
TakeForwards(st) == st.remaining > 0

\* a take that counts two for every event it forwards
TakeStep_Two(st) == [st EXCEPT !.remaining = @ - 2]

\* take.on_next: remaining[0] -= 1
TakeStep(st) == [st EXCEPT !.remaining = @ - 1]

\* a take that never completes on its own
TakeCompletes_Never(st) == FALSE

\* take.on_next: if not remaining[0]
TakeCompletes(st) == st.remaining = 0

\* a take_last that never drops the oldest element
TakeLastOnNext_KeepAll(st, x) == [st EXCEPT !.q = Append(@, x)]

\* the on_next closure of take_last: q.append(x), and q.pop(0) if
\* len(q) > count
TakeLastOnNext(st, x) ==
    LET q == Append(st.q, x)
    IN  [st EXCEPT !.q = IF Len(q) > st.count THEN Tail(q) ELSE q]

\* a last that keeps the first value it sees
LastOnNext_First(st, x) ==
    IF st.seen_value THEN st ELSE [st EXCEPT !.value = x, !.seen_value = TRUE]

\* the on_next closure of last
LastOnNext(st, x) == [st EXCEPT !.value = x, !.seen_value = TRUE]

RECURSIVE DispatchFrom(_, _, _, _, _)
RECURSIVE TakeLastOnCompleted(_, _, _)
RECURSIVE CallEach(_, _, _, _, _, _)
RECURSIVE Deliver(_, _, _, _, _)

\* the sink's on_next, on_completed, on_error; env.sink is what its on_error
\* raises (None: it returns)
SinkReceives(pl, kind, val, env) ==
    [pl EXCEPT !.out = Append(@, Event(kind, val)),
               !.errs = IF kind = "error" THEN @ + 1 ELSE @,
               !.exc = IF kind = "error" THEN env.sink ELSE None]

\* the on_next closure of take, run by stage j
TakeOnNext(pl, j, val, env) ==
    IF TakeForwards(pl.stages[j])
    THEN LET a == [pl EXCEPT !.stages[j] = TakeStep(@)]
             b == DispatchFrom(a, j, "next", val, env)
         IN  IF b.exc # None THEN b
             ELSE IF TakeCompletes(b.stages[j])
             THEN DispatchFrom([b EXCEPT !.stages[j].completed = TRUE],
                               j, "completed", None, env)
             ELSE b
    ELSE [pl EXCEPT !.exc = None]

\* the on_completed closure of take
TakeOnCompleted(pl, j, env) ==
    IF pl.stages[j].completed = FALSE
    THEN DispatchFrom(pl, j, "completed", None, env)
    ELSE [pl EXCEPT !.exc = None]

\* the on_completed closure of take_last: the while loop that drains q,
\* then _dispatch_completed
TakeLastOnCompleted(pl, j, env) ==
    IF Len(pl.stages[j].q) > 0
    THEN LET v == Head(pl.stages[j].q)
             a == DispatchFrom([pl EXCEPT !.stages[j].q = Tail(@)], j,
                               "next", v, env)
         IN  IF a.exc # None THEN a ELSE TakeLastOnCompleted(a, j, env)
    ELSE DispatchFrom(pl, j, "completed", None, env)

\* the on_completed closure of last
LastOnCompleted(pl, j, env) ==
    IF ~pl.stages[j].seen_value /\ pl.stages[j].default = None
    THEN DispatchFrom(pl, j, "error", "SequenceContainsNoElementsError", env)
    ELSE LET a == DispatchFrom(pl, j, "next", pl.stages[j].value, env)
         IN  IF a.exc # None THEN a
             ELSE DispatchFrom(a, j, "completed", None, env)

\* the on_next hook the program gave to the Filter of the third pipeline
HookOnNext(pl, j, val, env) ==
    IF env.hook = None
    THEN DispatchFrom([pl EXCEPT !.hook = "returned"], j, "next", val, env)
    ELSE [pl EXCEPT !.hook = env.hook, !.exc = env.hook]

\* Filter.on_error: no stage has an on_error hook
FilterOnError(pl, j, e, env) == DispatchFrom(pl, j, "error", e, env)

\* Filter.on_completed
FilterOnCompleted(pl, j, env) ==
    CASE pl.stages[j].kind = "take" -> TakeOnCompleted(pl, j, env)
      [] pl.stages[j].kind = "take_last" -> TakeLastOnCompleted(pl, j, env)
      [] pl.stages[j].kind = "last" -> LastOnCompleted(pl, j, env)
      [] OTHER -> DispatchFrom(pl, j, "completed", None, env)

\* Filter.on_next: the hook, and the except clauses around it. self.dispose
\* is the statement after self.on_error(e): an exception of on_error leaves
\* on_next before it.
FilterOnNext(pl, j, val, env) ==
    LET r == CASE pl.stages[j].kind = "take" -> TakeOnNext(pl, j, val, env)
               [] pl.stages[j].kind = "take_last" ->
                    [pl EXCEPT !.stages[j] = TakeLastOnNext(@, val),
                               !.exc = None]
               [] pl.stages[j].kind = "last" ->
                    [pl EXCEPT !.stages[j] = LastOnNext(@, val),
                               !.exc = None]
               [] OTHER -> HookOnNext(pl, j, val, env)
    IN  IF r.exc = None \/ r.exc \in FatalErrors THEN r
        ELSE LET a == FilterOnError(r, j, r.exc, env)
                 u == Unsubscribe(a.stages[j - 1].p, "default", StageLink(j))
             IN  IF a.exc # None THEN a
                 ELSE [a EXCEPT !.stages[j - 1].p = u.p, !.exc = u.exc,
                                !.disposed = TRUE]

\* the callback on_<kind> of stage j, the sink if j is past the last stage
Deliver(pl, j, kind, val, env) ==
    IF j > Len(pl.stages) THEN SinkReceives(pl, kind, val, env)
    ELSE CASE kind = "next" -> FilterOnNext(pl, j, val, env)
           [] kind = "completed" -> FilterOnCompleted(pl, j, env)
           [] kind = "error" -> FilterOnError(pl, j, val, env)

\* the for loop of a _dispatch_* method over the list it has looked up
CallEach(pl, subs, k, kind, val, env) ==
    IF k > Len(subs) THEN [pl EXCEPT !.exc = None]
    ELSE LET r == Deliver(pl, subs[k].subscriber[2], kind, val, env)
         IN  IF r.exc # None THEN r
             ELSE CallEach(r, subs, k + 1, kind, val, env)

\* _dispatch_next, _dispatch_completed, _dispatch_error of stage i on its
\* default topic, no enqueue_fn: the lookup, the loop with its except
\* clauses, and _close_topic after the loop of a terminal event
DispatchFrom(pl, i, kind, val, env) ==
    LET p == pl.stages[i].p
    IN  IF Lookup(p, "default") # "ok"
        THEN [pl EXCEPT !.exc = Lookup(p, "default")]
        ELSE LET r == CallEach(pl, p.subscribers["default"], 1, kind, val,
                               env)
             IN  IF r.exc # None THEN [r EXCEPT !.exc = Conv(r.exc)]
                 ELSE IF kind \in Terminal
                 THEN [r EXCEPT !.stages[i].p = CloseTopic(@, "default")]
                 ELSE r

\* the history of the last call starts afresh with every call of the source
BeforeCall(pl) ==
    [pl EXCEPT !.exc = None, !.hook = "idle", !.errs = 0,
               !.disposed = FALSE]

FilterInit ==
    /\ pub = NewPublisher(DeclaredTopics)
    /\ stack = <<>>
    /\ loopq = <<>>
    /\ handles = <<>>
    /\ trace = <<>>
    /\ last = Result("init", None, None, NoArg, 0, "ok", {})
    /\ ncalls = 0
    /\ hookCalls = 0
    /\ termDone = {}
    /\ raised = FALSE
    /\ pubs = [s \in Sources |-> SourcePublisher(s)]
    /\ source = [s \in Sources |-> NewSource(0, "stop")]
    /\ sched = NewScheduler
    /\ loop = NewEventLoop
    /\ thread = [s \in Sources |-> NoThread]
    /\ hist = NoHistory
    /\ \E n \in 1..MaxCount, m \in 1..MaxCount, c \in 0..MaxCount,
          d \in Defaults :
          m <= n /\ chain = NewChain(n, m, c, d)
    /\ bridge = None
    /\ csv = None
    /\ shared = None

\* the sources dispatch their next event: the same event in every pipeline.
\* The stream is finite: events, then one completed or error.
Emit(kind, hook, sink) ==
    /\ ~chain.ended
    /\ Len(chain.stream) < MaxStream
    /\ LET val == IF kind = "completed" THEN None
                  ELSE Len(chain.stream) + 1
           env == [hook |-> hook, sink |-> sink]
       IN  chain' = [chain EXCEPT
              !.stream = Append(@, Event(kind, val)),
              !.ended = kind \in Terminal,
              !.pipes = [x \in Pipelines |->
                  DispatchFrom(BeforeCall(chain.pipes[x]), 1, kind, val,
                               env)]]
    /\ UNCHANGED <<pubVars, schedVars, sinkVars, csvVars, raceVars>>

FilterNext ==
    \E kind \in Kinds, hook \in HookChoices, sink \in HookChoices :
        Emit(kind, hook, sink)

SpecFilter == FilterInit /\ [][FilterNext]_vars

\* ------------------------------------------------------ BlockingSubscriber
\* the topics lists a BlockingSubscriber is constructed with
SinkTopicLists == {<<"t1">>, <<"t1", "t2">>}
\* the publishers it may be subscribed to, on every topic of its list; each
\* is scheduled on the main loop
SinkPublishers == {"p1", "p2"}
\* the program subscribes it to one of them or to both
SinkPublisherSets == {{"p1"}, SinkPublishers}

\* queue.put(None): the stop token of request_stop
StopToken == [kind |-> "stop"]

\* BlockingSubscriber.__init__, the subscribe calls of the program, and the
\* schedule calls for the publishers. thread: the attribute self.thread;
\* worker: where the thread is in run(); open: the topics of each publisher
\* still open; loop.ready holds the start() posted by __init__.
\* History: emitted (events the publishers gave to the proxies), handled
\* (calls of _on_next/_on_completed/_on_error, with the topic argument),
\* closes (calls of _close), stops (calls by the program), cut (tuples
\* enqueued before the first stop token, -1 if there is none), posts and ran
\* (handles posted by the thread, handles run by the loop with the exception
\* they raised), failed (a handler raised), userstop (Scheduler.stop called
\* by the program), exc (the exception of the call in progress)
NewBridge(topics, ps) ==
    [topics |-> topics, num_closed_topics |-> 0, queue |-> <<>>,
     thread |-> "thread", worker |-> "created",
     open |-> [p \in ps |-> {topics[i] : i \in 1..Len(topics)}],
     active_schedules |-> {"bridge"} \cup ps, fatal_error |-> None,
     loop |-> [state |-> "idle", stopping |-> FALSE, batch |-> 0,
               ready |-> <<"start">>],
     emitted |-> <<>>, handled |-> <<>>, closes |-> 0, stops |-> 0,
     cut |-> -1, posts |-> <<>>, ran |-> <<>>, failed |-> FALSE,
     userstop |-> FALSE, exc |-> None]

\* the variable topic of __init__ as the proxy lambdas find it when they are
\* called: the closures share the loop variable, which holds the last topic
\* of the list once the for loop has ended
BoundTopic(b) == b.topics[Len(b.topics)]

\* the proxy on_<t>_<kind> of the bridge, called by a publisher: it puts
\* (method, closing_topic, [topic, x]) into the queue ("on" is history: the
\* topic whose proxy was called)
Proxy(b, kind, t, val) ==
    [b EXCEPT !.queue = Append(@, [kind |-> kind, closing |-> kind \in Terminal,
                                   topic |-> BoundTopic(b), on |-> t,
                                   val |-> val]),
              !.emitted = Append(@, [kind |-> kind, on |-> t, val |-> val])]

\* BlockingSubscriber.request_stop
RequestStopOf(b) ==
    IF b.thread = None THEN b
    ELSE [b EXCEPT !.queue = Append(@, StopToken),
                   !.cut = IF @ = -1 THEN Len(b.emitted) ELSE @]

\* Scheduler.stop with a BlockingSubscriber in active_schedules: its handle
\* is the bound method request_stop, the publishers' handles are cancelled
SinkStop(b) ==
    [(IF "bridge" \in b.active_schedules THEN RequestStopOf(b) ELSE b) EXCEPT
        !.active_schedules = {},
        !.loop.stopping = TRUE]

\* Scheduler._remove_from_active_schedules(key)
SinkRemove(b, key) ==
    IF key \notin b.active_schedules THEN [b EXCEPT !.exc = "KeyError"]
    ELSE LET a == [b EXCEPT !.active_schedules = @ \ {key}]
         IN  IF a.active_schedules = {} THEN SinkStop(a) ELSE a

\* die() of _ThreadForBlockingSubscriber.run: del, then raise ScheduleError
SinkDie(b) ==
    IF "bridge" \notin b.active_schedules THEN [b EXCEPT !.exc = "KeyError"]
    ELSE [b EXCEPT !.active_schedules = @ \ {"bridge"},
                   !.exc = "ScheduleError"]

\* exception_handler of Scheduler.__init__
SinkExceptionHandler(b) ==
    SinkStop([b EXCEPT !.fatal_error = "Exception in callback",
                       !.exc = None])

\* the end of a loop iteration: run_forever leaves the loop if stop() was
\* called, and raises ScheduleError if fatal_error is set
SinkEndOfIteration(b) ==
    IF b.loop.state = "running" /\ b.loop.batch = 0 /\ b.loop.stopping
    THEN [b EXCEPT !.loop.stopping = FALSE,
                   !.loop.state = IF b.fatal_error # None THEN "raised"
                                  ELSE "returned"]
    ELSE b

SinkInit ==
    /\ pub = NewPublisher(DeclaredTopics)
    /\ stack = <<>>
    /\ loopq = <<>>
    /\ handles = <<>>
    /\ trace = <<>>
    /\ last = Result("init", None, None, NoArg, 0, "ok", {})
    /\ ncalls = 0
    /\ hookCalls = 0
    /\ termDone = {}
    /\ raised = FALSE
    /\ pubs = [s \in Sources |-> SourcePublisher(s)]
    /\ source = [s \in Sources |-> NewSource(0, "stop")]
    /\ sched = NewScheduler
    /\ loop = NewEventLoop
    /\ thread = [s \in Sources |-> NoThread]
    /\ hist = NoHistory
    /\ chain = None
    /\ \E topics \in SinkTopicLists, ps \in SinkPublisherSets :
          bridge = NewBridge(topics, ps)
    /\ csv = None
    /\ shared = None

SinkUnchanged == UNCHANGED <<pubVars, schedVars, filtVars, csvVars, raceVars>>

\* the program calls Scheduler.run_forever
SinkRunForever ==
    /\ bridge.loop.state = "idle"
    /\ bridge' = [bridge EXCEPT !.loop.state = "running"]
    /\ SinkUnchanged

\* the loop begins an iteration with the handles that are ready
SinkIteration ==
    /\ bridge.loop.state = "running" /\ bridge.loop.batch = 0
    /\ bridge.loop.ready # <<>> \/ bridge.loop.stopping
    /\ bridge' = SinkEndOfIteration(
                    [bridge EXCEPT !.loop.batch = Len(bridge.loop.ready)])
    /\ SinkUnchanged

\* the loop runs the next handle of the iteration: start() of __init__,
\* done() or die() of the thread
SinkHandle ==
    /\ bridge.loop.state = "running" /\ bridge.loop.batch > 0
    /\ LET h == Head(bridge.loop.ready)
           b == [bridge EXCEPT !.loop.ready = Tail(@), !.loop.batch = @ - 1]
           r == CASE h = "start" -> [b EXCEPT !.worker = "running"]
                  [] h = "done" -> SinkRemove(b, "bridge")
                  [] h = "die" -> SinkDie(b)
           u == [r EXCEPT !.ran = Append(@, <<h, r.exc>>)]
       IN  bridge' = SinkEndOfIteration(
                        IF u.exc # None THEN SinkExceptionHandler(u) ELSE u)
    /\ SinkUnchanged

\* a scheduled publisher dispatches an event on one of its open topics, in
\* a loop iteration of its own: the proxy is called; a terminal event closes
\* the topic, and the unschedule hook removes the publisher when its last
\* topic is closed
SinkEmit(p, kind, t) ==
    /\ bridge.loop.state = "running" /\ bridge.loop.batch = 0
    /\ p \in bridge.active_schedules /\ p \in DOMAIN bridge.open
    /\ t \in bridge.open[p]
    /\ Len(bridge.emitted) < MaxEmit
    /\ LET a == Proxy(bridge, kind, t, Len(bridge.emitted) + 1)
           c == IF kind \in Terminal THEN [a EXCEPT !.open[p] = @ \ {t}]
                ELSE a
           r == IF c.open[p] = {} THEN SinkRemove(c, p) ELSE c
       IN  bridge' = SinkEndOfIteration(r)
    /\ SinkUnchanged

\* the program calls request_stop, on any thread
SinkRequestStop ==
    /\ bridge.stops < MaxStops
    /\ bridge' = [RequestStopOf(bridge) EXCEPT !.stops = @ + 1]
    /\ SinkUnchanged

\* the program calls Scheduler.stop, before run_forever or in a callback
SinkUserStop ==
    /\ bridge.stops < MaxStops
    /\ bridge.loop.state \in {"idle", "running"}
    /\ bridge' = SinkEndOfIteration(
                    [SinkStop(bridge) EXCEPT !.stops = @ + 1,
                                             !.userstop = TRUE])
    /\ SinkUnchanged

\* BlockingSubscriber._wait_and_dispatch, called by the loop of run(): the
\* thread takes the next tuple; raises: the handler raises an exception
WaitAndDispatch(raises) ==
    /\ bridge.worker = "running"
    /\ bridge.queue # <<>>
    /\ LET action == Head(bridge.queue)
           b == [bridge EXCEPT !.queue = Tail(@)]
       IN  bridge' =
             IF action = StopToken THEN [b EXCEPT !.worker = "leaving"]
             ELSE LET c == [b EXCEPT !.handled = Append(@, action)]
                  IN  IF raises
                      THEN [c EXCEPT !.worker = "failing", !.failed = TRUE]
                      ELSE IF action.closing
                      THEN [c EXCEPT
                              !.num_closed_topics = @ + 1,
                              !.worker =
                                 IF c.num_closed_topics + 1 = Len(c.topics)
                                 THEN "leaving" ELSE @]
                      ELSE c
    /\ SinkUnchanged

\* _ThreadForBlockingSubscriber.run after its loop: _close, thread = None,
\* and done() or die() posted with call_soon_threadsafe
ThreadExit ==
    /\ bridge.worker \in {"leaving", "failing"}
    /\ LET h == IF bridge.worker = "failing" THEN "die" ELSE "done"
       IN  bridge' = [bridge EXCEPT !.closes = @ + 1,
                                    !.thread = None,
                                    !.loop.ready = Append(@, h),
                                    !.posts = Append(@, h),
                                    !.worker = "exited"]
    /\ SinkUnchanged

SinkNext ==
    \/ SinkRunForever
    \/ SinkIteration
    \/ SinkHandle
    \/ \E p \in SinkPublishers, kind \in Kinds, t \in {"t1", "t2"} :
          SinkEmit(p, kind, t)
    \/ SinkRequestStop
    \/ SinkUserStop
    \/ \E raises \in BOOLEAN : WaitAndDispatch(raises)
    \/ ThreadExit

SpecSink == SinkInit /\ [][SinkNext]_vars

\* ================================================================ SpecCsv
\* antevents/adapters/csv.py: RollingCsvWriter.  A date is the integer
\* yyyymmdd; the three dates cross a month and a year boundary.
NoDate == 0
Dates == {20161231, 20170101, 20170102}
BaseName == "dining-room"

Year(d) == d \div 10000
Month(d) == (d \div 100) % 100
Day(d) == d % 100

\* '%02d'
Pad2(n) == IF n < 10 THEN "0" \o ToString(n) ELSE ToString(n)

\* base_name + '-%d-%02d-%02d.csv' % (year, month, day)
FileName(d) ==
    BaseName \o "-" \o ToString(Year(d)) \o "-" \o Pad2(Month(d))
             \o "-" \o Pad2(Day(d)) \o ".csv"

HeaderRow == [kind |-> "header", date |-> NoDate, val |-> 0]
OldRow == [kind |-> "old", date |-> NoDate, val |-> 0]
EventRow(d, v) == [kind |-> "row", date |-> d, val |-> v]
FileOp(op, name, existed, row) ==
    [op |-> op, name |-> name, existed |-> existed, row |-> row]

\* the writer after __init__, in a directory where the files of the dates in
\* pre exist already
NewCsvWriter(pre) ==
    [ current_file_date |-> NoDate,
      file     |-> None,          \* the name of self.file
      handles  |-> <<>>,          \* the files that are open
      fs       |-> [n \in {FileName(d) : d \in Dates} |->
                       IF \E d \in pre : n = FileName(d)
                       THEN [exists |-> TRUE, rows |-> <<OldRow>>]
                       ELSE [exists |-> FALSE, rows |-> <<>>]],
      existing |-> {FileName(d) : d \in pre},
      events   |-> <<>>,          \* the dates of the events given
      ops      |-> <<>>,          \* the file operations made
      ended    |-> "no",
      exc      |-> None ]

RECURSIVE RemoveFirst(_, _)
RemoveFirst(seq, x) ==
    IF seq = <<>> THEN <<>>
    ELSE IF Head(seq) = x THEN Tail(seq)
    ELSE <<Head(seq)>> \o RemoveFirst(Tail(seq), x)

\* if self.file: self.file.close()
CloseFile(c) ==
    IF c.file = None THEN c
    ELSE [c EXCEPT !.handles = RemoveFirst(@, c.file),
                   !.ops = Append(@, FileOp("close", c.file, FALSE, OldRow))]

\* self.writer.writerow(row): a closed file refuses the write
WriteRow(c, op, row) ==
    IF c.exc # None THEN c
    ELSE IF \A i \in DOMAIN c.handles : c.handles[i] # c.file
    THEN [c EXCEPT !.exc = "ValueError"]
    ELSE [c EXCEPT !.fs[c.file].rows = Append(@, row),
                   !.ops = Append(@, FileOp(op, c.file, FALSE, row))]

StartFile_AlwaysHeader(c, event_date) ==
    LET filename == FileName(event_date)
        opened == [c EXCEPT
            !.file = filename,
            !.handles = Append(@, filename),
            !.fs[filename] = [exists |-> TRUE, rows |-> c.fs[filename].rows],
            !.ops = Append(@, FileOp("open", filename,
                                     c.fs[filename].exists, OldRow))]
    IN  [WriteRow(opened, "header", HeaderRow)
            EXCEPT !.current_file_date = event_date]

StartFile(c, event_date) ==
    LET filename == FileName(event_date)
        existed == c.fs[filename].exists
        \* mode 'a' keeps the rows of the file, mode 'w' creates it empty
        opened == [c EXCEPT
            !.file = filename,
            !.handles = Append(@, filename),
            !.fs[filename] = [exists |-> TRUE,
                              rows |-> IF existed THEN c.fs[filename].rows
                                       ELSE <<>>],
            !.ops = Append(@, FileOp("open", filename, existed, OldRow))]
        started == IF existed THEN opened
                   ELSE WriteRow(opened, "header", HeaderRow)
    IN  [started EXCEPT !.current_file_date = event_date]

CsvInit ==
    /\ pub = NewPublisher(DeclaredTopics)
    /\ stack = <<>>
    /\ loopq = <<>>
    /\ handles = <<>>
    /\ trace = <<>>
    /\ last = Result("init", None, None, NoArg, 0, "ok", {})
    /\ ncalls = 0
    /\ hookCalls = 0
    /\ termDone = {}
    /\ raised = FALSE
    /\ pubs = [s \in Sources |-> SourcePublisher(s)]
    /\ source = [s \in Sources |-> NewSource(0, "stop")]
    /\ sched = NewScheduler
    /\ loop = NewEventLoop
    /\ thread = [s \in Sources |-> NoThread]
    /\ hist = NoHistory
    /\ chain = None
    /\ bridge = None
    /\ \E pre \in SUBSET Dates : csv = NewCsvWriter(pre)
    /\ shared = None

CsvUnchanged == UNCHANGED <<pubVars, schedVars, filtVars, sinkVars, raceVars>>

\* on_next(x), x the next event of the stream, of date d
CsvOnNext(d) ==
    /\ csv.ended = "no"
    /\ csv.exc = None
    /\ Len(csv.events) < MaxRows
    /\ LET given == [csv EXCEPT !.events = Append(@, d)]
           rolled == IF d # given.current_file_date
                     THEN StartFile(CloseFile(given), d)
                     ELSE given
       IN  csv' = WriteRow(rolled, "row", EventRow(d, Len(given.events)))
    /\ CsvUnchanged

CsvOnCompleted ==
    /\ csv.ended = "no"
    /\ csv' = [CloseFile(csv) EXCEPT !.ended = "completed"]
    /\ CsvUnchanged

CsvOnError ==
    /\ csv.ended = "no"
    /\ csv' = [CloseFile(csv) EXCEPT !.ended = "error"]
    /\ CsvUnchanged

CsvNext ==
    \/ \E d \in Dates : CsvOnNext(d)
    \/ CsvOnCompleted
    \/ CsvOnError

SpecCsv == CsvInit /\ [][CsvNext]_vars

\* ================================================================ claims
\* history read off the trace
CbEntries(tr) == SelectSeq(tr, LAMBDA e : e.t = "cb")
NumCb(tr) == Len(CbEntries(tr))

\* C1: once a terminal dispatch (_dispatch_completed or _dispatch_error) on
\* a topic has returned, every later _dispatch_next, _dispatch_completed or
\* _dispatch_error on that topic raises TopicAlreadyClosed, enters no
\* subscriber callback and posts none to the main loop.
C1_ClosedTopicRejects ==
    [][ (ncalls' = ncalls + 1 /\ last'.topic \in termDone)
          => /\ last'.op = "dispatch"
             /\ last'.res = "TopicAlreadyClosed"
             /\ NumCb(trace') = NumCb(trace)
             /\ loopq' = loopq
             /\ pub' = pub ]_vars

\* a dispatch on a topic that had delivered a terminal event to a subscriber
\* was rejected
C1_Witness ==
    /\ last.op = "dispatch"
    /\ last.res = "TopicAlreadyClosed"
    /\ last.topic \in termDone
    /\ \E i \in 1..Len(trace) :
          trace[i].t = "cb" /\ trace[i].kind \in Terminal
                            /\ trace[i].topic = last.topic

\* C2: a publisher's unschedule hook is invoked at most once, and no topic
\* of the publisher is open when it is invoked.
C2_HookAtMostOnce ==
    \A s \in Sources :
       /\ Len(hist.hooks[s]) <= 1
       /\ \A i \in 1..Len(hist.hooks[s]) : hist.hooks[s][i] = {}

\* the hook of the two-topic publisher was invoked, by the close of its
\* second topic, in a run where the program also called a cancel handle or
\* stop
C2_Witness ==
    /\ Len(hist.hooks["b"]) = 1
    /\ Len(pubs["b"].closed_topics) = 2
    /\ hist.user > 0

\* the values a subscription's on_next received, in order of delivery
NextVals(id) ==
    LET l == SelectSeq(trace, LAMBDA e : e.t = "cb" /\ e.sid = id
                                          /\ e.kind = "next")
    IN [i \in 1..Len(l) |-> l[i].val]

\* the values passed to _dispatch_next on topic t after the first n calls
Emitted(t, n) ==
    LET l == SelectSeq(trace, LAMBDA e : e.t = "call" /\ e.kind = "next"
                                          /\ e.topic = t /\ e.val > n)
    IN [i \in 1..Len(l) |-> l[i].val]

Increasing(l) == \A i, j \in 1..Len(l) : i < j => l[i] < l[j]

Quiescent == stack = <<>> /\ loopq = <<>>

\* the subscription that subscribe call number h created is in its list
Subscribed(p, h) ==
    /\ handles[h].pub_topic \in DOMAIN p.subscribers
    /\ \E i \in 1..Len(p.subscribers[handles[h].pub_topic]) :
          p.subscribers[handles[h].pub_topic][i].id = h

\* C3: while no call has raised: every subscription receives the values
\* passed to _dispatch_next in emission order (events are numbered by their
\* dispatch call); within one dispatch the callbacks run in subscription
\* order; and once nothing is in flight, a subscription that is still in the
\* list has received exactly the values dispatched since it subscribed.
C3_EmissionOrder ==
    ~raised =>
      /\ \A h \in 1..Len(handles) : Increasing(NextVals(h))
      /\ \A i, j \in 1..Len(trace) :
            (i < j /\ trace[i].t = "cb" /\ trace[j].t = "cb"
                   /\ trace[i].val = trace[j].val)
               => trace[i].sid < trace[j].sid
      /\ Quiescent =>
            \A h \in 1..Len(handles) :
               Subscribed(pub, h) =>
                  NextVals(h) = Emitted(handles[h].pub_topic, handles[h].since)

\* a step is a subscribe call with arguments (s, pt, st) / a dispatch call
IsSubscribe == last'.op = "subscribe" /\ last' # last
IsDispatch == ncalls' = ncalls + 1

\* the call of this step raised exc, and the publisher (subscriber lists,
\* topic sets, scheduler links), the posted calls and the callbacks run so
\* far are as before
Rejected(exc) ==
    /\ last'.res = exc
    /\ pub' = pub
    /\ loopq' = loopq
    /\ handles' = handles
    /\ NumCb(trace') = NumCb(trace)
    /\ hookCalls' = hookCalls

\* the subscriber argument lacks one of on_next, on_completed, on_error for
\* the sub_topic argument
LacksCallback(s, st) == \E k \in Kinds : ~HasAttr(s, k, st)

\* C5 as claimed: a subscribe whose pub_topic is not an open topic, or whose
\* subscriber lacks one of the three callbacks for sub_topic, raises
\* InvalidTopicError; a dispatch on a topic that was never declared raises
\* UnknownTopicError; both change nothing and run no callback.
C5_ViolationsRejected ==
    [][ /\ (IsSubscribe /\ (\/ last'.topic \notin pub.topics
                             \/ LacksCallback(last'.arg[1], last'.arg[2])))
             => Rejected("InvalidTopicError")
        /\ (IsDispatch /\ last'.topic \notin DeclaredTopics)
             => Rejected("UnknownTopicError") ]_vars

\* C5 as amended: the same, except that a callable subscriber without an
\* on_next method for sub_topic is not rejected for lacking callbacks (it is
\* wrapped in a CallableAsSubscriber and subscribed).
C5_ViolationsRejectedUnlessCallable ==
    [][ /\ (IsSubscribe /\ (\/ last'.topic \notin pub.topics
                             \/ /\ LacksCallback(last'.arg[1], last'.arg[2])
                                /\ ~(/\ Callable(last'.arg[1])
                                     /\ ~HasAttr(last'.arg[1], "next",
                                                 last'.arg[2]))))
             => Rejected("InvalidTopicError")
        /\ (IsSubscribe /\ last'.topic \in pub.topics
                        /\ Callable(last'.arg[1])
                        /\ ~HasAttr(last'.arg[1], "next", last'.arg[2]))
             => /\ last'.res = "ok"
                /\ Len(pub'.subscribers[last'.topic]) =
                      Len(pub.subscribers[last'.topic]) + 1
        /\ (IsDispatch /\ last'.topic \notin DeclaredTopics)
             => Rejected("UnknownTopicError") ]_vars

\* a subscriber without on_completed was rejected on an open topic that
\* already has a subscriber
C5_Witness ==
    /\ last.op = "subscribe"
    /\ last.res = "InvalidTopicError"
    /\ last.arg = <<"partial", "default">>
    /\ last.topic \in pub.topics
    /\ pub.subscribers[last.topic] # <<>>

\* the callbacks one subscription received, in order of delivery
CbKinds(id) ==
    LET l == SelectSeq(trace, LAMBDA e : e.t = "cb" /\ e.sid = id)
    IN [i \in 1..Len(l) |-> l[i].kind]

\* C4: while no call has raised: a subscription receives at most one
\* terminal callback (on_completed or on_error) and no callback after it.
C4_TerminalIsLast ==
    ~raised =>
      \A h \in 1..Len(handles) :
         \A i, j \in 1..Len(CbKinds(h)) :
            i < j => CbKinds(h)[i] \notin Terminal

\* the subscriber objects of a list, in dispatch order
Targets(l) == [i \in 1..Len(l) |-> l[i].subscriber]

\* the position in list l of the subscription that subscribe call h created
PosOf(l, h) == CHOOSE i \in 1..Len(l) : l[i].id = h

\* C6: a dispose call whose subscription is in the list raises nothing, takes
\* exactly that entry out of the list (the other entries stay, in order) and
\* leaves the dispatch in progress as it is.
C6_DisposeRemovesOwn ==
    [][ (last'.op = "dispose" /\ Subscribed(pub, last'.sid))
          => LET l == pub.subscribers[last'.topic] IN
             /\ last'.res = "ok"
             /\ last'.topic \in DOMAIN pub'.subscribers
             /\ Targets(pub'.subscribers[last'.topic]) =
                   Targets(RemoveAt(l, PosOf(l, last'.sid)))
             /\ stack' = stack
             /\ trace' = trace ]_vars

\* C7: a dispose call whose subscription is no longer in the list raises
\* nothing and leaves the publisher as it is.
C7_DisposeIdempotent ==
    [][ (last'.op = "dispose" /\ ~Subscribed(pub, last'.sid))
          => (last'.res = "ok" /\ pub' = pub) ]_vars

\* C8: every exception that escapes a _dispatch_* call is a FatalError (one
\* raised by a callback, or the ExcInDispatch that replaces any other).
C8_OnlyFatalEscapes == last.esc \subseteq FatalErrors
\* the callbacks the subscriber of source s received: kind and value
LogOf(s) ==
    LET l == SelectSeq(hist.log, LAMBDA x : x.s = s)
    IN [i \in 1..Len(l) |-> <<l[i].kind, l[i].val>>]

\* what the subscriber of the iterable source is to receive: its n elements
\* in order, then completed
Expected(n) ==
    [i \in 1..(n + 1) |-> IF i <= n THEN <<"next", i>> ELSE <<"completed", 0>>]

IsPrefix(a, b) == Len(a) <= Len(b) /\ a = SubSeq(b, 1, Len(a))

\* the iterable source "a", ending by StopIteration, was scheduled once with
\* schedule_periodic or schedule_recurring and is the only source; the
\* program calls no cancel handle and no stop, the subscriber raises nothing
PullRun ==
    /\ source["a"].kind = "iterable"
    /\ hist.disc["a"] \in {<<"periodic">>, <<"recurring">>}
    /\ hist.disc["b"] = <<>>
    /\ source["a"].ends = "stop"
    /\ hist.user = 0
    /\ ~hist.cbraised
    /\ hist.runs <= 1

PullDone ==
    /\ LogOf("a") = Expected(source["a"].n)
    /\ "a" \notin DOMAIN sched.active_schedules
    /\ sched.fatal_error = None
    /\ pubs["a"].unschedule_hook = None

\* the handle that active_schedules holds for s is waiting in the loop: a
\* pending timer, or a ready handle that is not cancelled
RunPending(s) ==
    /\ s \in DOMAIN sched.active_schedules
    /\ sched.active_schedules[s].type = "handle"
    /\ LET id == sched.active_schedules[s].ref IN
          \/ \E x \in loop.timers : x.id = id /\ x.task = "run" /\ x.s = s
          \/ /\ id \notin loop.cancelled
             /\ \E i \in 1..Len(loop.ready) :
                   loop.ready[i].id = id /\ loop.ready[i].task = "run"
                                         /\ loop.ready[i].s = s

\* C9: in such a run the subscriber receives the elements in order and then
\* one completed, nothing else; until then the next pull is waiting in the
\* loop; when the subscriber has received completed the source has left
\* active_schedules and the loop has been stopped; run_forever never raises,
\* and when it has returned the subscriber has received everything.
C9_EndToEndPull ==
    PullRun =>
       /\ IsPrefix(LogOf("a"), Expected(source["a"].n))
       /\ loop.state # "raised"
       /\ sched.fatal_error = None
       /\ Len(LogOf("a")) <= source["a"].n
             => loop.state \in {"idle", "running"} /\ RunPending("a")
       /\ Len(LogOf("a")) = source["a"].n + 1
             => PullDone /\ (loop.stopping \/ loop.state = "returned")
       /\ loop.state = "returned" => PullDone

\* run_forever has returned after the subscriber received MaxItems elements
\* and completed from a periodic schedule
C9_Witness ==
    /\ PullRun
    /\ hist.disc["a"] = <<"periodic">>
    /\ source["a"].n = MaxItems
    /\ loop.state = "returned"
    /\ LogOf("a") = Expected(MaxItems)

\* C10: every subscriber callback of a source that was given to a worker
\* thread (schedule_periodic_on_separate_thread, schedule_on_private_event_
\* loop) ran on the main thread.
C10_CallbacksOnMainLoop ==
    \A i \in 1..Len(hist.log) :
       thread[hist.log[i].s].state # "none" => hist.log[i].th = "main"

\* the subscriber of a source with a worker thread has received a next and
\* then a terminal callback
C10_Witness ==
    \E i, j \in 1..Len(hist.log) :
       /\ i < j
       /\ thread[hist.log[i].s].state # "none"
       /\ hist.log[i].s = hist.log[j].s
       /\ hist.log[i].kind = "next"
       /\ hist.log[j].kind \in Terminal

\* the n elements alone, as a source that fails after them dispatches them
ExpectedNexts(n) == [i \in 1..n |-> <<"next", i>>]

\* source "a" dispatches its n elements from the worker thread of
\* schedule_on_private_event_loop and then raises; it is the only source,
\* the program calls no cancel handle and no stop, the subscriber raises
\* nothing
PrivateRun ==
    /\ hist.disc["a"] = <<"private_loop">>
    /\ hist.disc["b"] = <<>>
    /\ source["a"].ends = "fatal"
    /\ hist.user = 0
    /\ ~hist.cbraised

\* a handle with this task for source s is in the ready queue
Ready(task, s) ==
    \E i \in 1..Len(loop.ready) :
       loop.ready[i].task = task /\ loop.ready[i].s = s

\* C11: in such a run the subscriber receives the elements in emission
\* order, on the main thread, and all of them before the scheduler shuts
\* down; the shutdown is the one the worker's failure causes (until then the
\* worker is alive or its die() is waiting in the loop), and run_forever
\* ends by raising, never by returning.
C11_PrivateLoopFailure ==
    PrivateRun =>
       /\ IsPrefix(LogOf("a"), ExpectedNexts(source["a"].n))
       /\ \A i \in 1..Len(hist.log) : hist.log[i].th = "main"
       /\ loop.state # "returned"
       /\ (sched.fatal_error # None \/ loop.stopping \/ loop.state = "raised")
             => LogOf("a") = ExpectedNexts(source["a"].n)
       /\ loop.state = "raised" => sched.fatal_error # None
       /\ (sched.fatal_error = None /\ loop.state = "running")
             => \/ thread["a"].state \notin {"created", "dead"}
                \/ thread["a"].state = "created" /\ Ready("start", "a")
                \/ thread["a"].state = "dead" /\ Ready("die", "a")

\* run_forever has raised after the subscriber received MaxItems elements
\* that the worker thread of a private event loop dispatched before failing
C11_Witness ==
    /\ PrivateRun
    /\ source["a"].n = MaxItems
    /\ loop.state = "raised"
    /\ LogOf("a") = ExpectedNexts(MaxItems)

\* C12: once a worker thread has caught an exception of its source,
\* run_forever does not return normally, and when it has raised, fatal_error
\* is recorded and active_schedules is empty.
C12_WorkerFailureSurfaces ==
    \A s \in Sources :
       thread[s].error =>
          /\ loop.state # "returned"
          /\ loop.state = "raised"
                => /\ sched.fatal_error # None
                   /\ DOMAIN sched.active_schedules = {}

\* the discipline of the schedule call whose cancel handle the program holds
LastDiscipline(s) == hist.disc[s][Len(hist.disc[s])]

\* a cancel call that left active_schedules empty has stopped the loop:
\* run_forever has ended or ends with the current iteration
StoppedWhenEmpty ==
    (hist.cancelled # {} /\ hist.runs <= 1
       /\ DOMAIN sched.active_schedules = {})
       => (loop.stopping \/ loop.state # "running")

\* C13 as claimed: after the program has called the cancel handle of a
\* schedule, no observe of that source is started, whatever the discipline,
\* and a table left empty stops the loop.
C13_NoObserveAfterCancel ==
    /\ \A s \in Sources : hist.late[s] = 0
    /\ StoppedWhenEmpty

\* C13 as amended: for the main-loop disciplines no observe is started after
\* the cancel call; a worker thread starts at most one, the one that follows
\* a test of stop_requested made before the call; a table left empty stops
\* the loop.
C13_NoObserveAfterCancelCooperative ==
    /\ \A s \in hist.cancelled :
          /\ LastDiscipline(s) \in DirectDisciplines => hist.late[s] = 0
          /\ hist.late[s] <= 1
          /\ hist.late[s] = 1 => thread[s].state # "observing"
    /\ StoppedWhenEmpty

\* the program cancelled the periodic schedule of the iterable source while
\* elements were left, and run_forever has returned without another observe
C13_Witness ==
    /\ hist.cancelled = {"a"}
    /\ hist.disc["a"] = <<"periodic">>
    /\ hist.observes["a"] = 1
    /\ source["a"].pos < source["a"].n
    /\ loop.state = "returned"

\* C14 as claimed: a cancel handle called while its source has no entry in
\* active_schedules raises ScheduleError and changes neither the table nor
\* the loop, whatever the discipline.
C14_CancelAbsentRaises ==
    \A i \in 1..Len(hist.cancels) :
       hist.cancels[i].absent
          => hist.cancels[i].res = "ScheduleError" /\ hist.cancels[i].kept

\* C14 as amended: so it is for the cancel handles of the main-loop
\* disciplines; the handle of a worker-thread discipline raises nothing and
\* changes neither the table nor the loop.
C14_CancelAbsentRaisesOnMainLoop ==
    \A i \in 1..Len(hist.cancels) :
       hist.cancels[i].absent
          => /\ hist.cancels[i].kept
             /\ hist.cancels[i].res =
                   IF hist.cancels[i].d \in DirectDisciplines
                   THEN "ScheduleError" ELSE None

\* the program has called the cancel handle of a main-loop schedule twice:
\* the second call found no entry
C14_Witness ==
    /\ Len(hist.cancels) = 2
    /\ hist.cancels[1].d \in DirectDisciplines
    /\ ~hist.cancels[1].absent
    /\ hist.cancels[2].s = hist.cancels[1].s
    /\ hist.cancels[2].absent
    /\ hist.cancels[2].res = "ScheduleError"

\* nothing but the schedules themselves can have stopped the scheduler: the
\* program called no cancel handle and no stop, no callback raised, no
\* fatal error is recorded, run_forever was called at most once
Undisturbed ==
    /\ hist.user = 0
    /\ ~hist.cbraised
    /\ sched.fatal_error = None
    /\ hist.runs <= 1

\* C15: for a source the program scheduled with schedule_later_one_time,
\* the observe of that schedule runs while the source is out of
\* active_schedules and at most once; and when the source has scheduled
\* itself again from inside that observe and its new handle is waiting in
\* the loop, the loop has not been stopped.
C15_OneTimeReschedule ==
    \A s \in Sources :
       (hist.disc[s] # <<>> /\ hist.disc[s][1] = "one_time")
          => /\ hist.observes[s] > 0 => s \in hist.unlisted
             /\ Len(hist.disc[s]) = 1 => hist.observes[s] <= 1
             /\ (s \in hist.self /\ RunPending(s) /\ Undisturbed)
                   => loop.state \in {"idle", "running"} /\ ~loop.stopping

\* both sources were scheduled, once each, before run_forever; the program
\* calls no cancel handle and no stop, no subscriber raises, the iterable
\* does not raise a FatalError, run_forever is called once
SeveralRun ==
    /\ \A s \in Sources : Len(hist.disc[s]) = 1
    /\ ~hist.again
    /\ hist.user = 0
    /\ ~hist.cbraised
    /\ source["a"].ends # "fatal"
    /\ hist.runs <= 1

\* the subscriber of s has received an error and no topic of s is open
ErroredOut(s) ==
    /\ DOMAIN pubs[s].subscribers = {}
    /\ LogOf(s) # <<>>
    /\ LogOf(s)[Len(LogOf(s))][1] = "error"

\* when the sources are scheduled with disciplines of ds and one has ended
\* by an in-band error, it has left active_schedules, no fatal error is recorded,
\* run_forever has not raised, and a source that still has an open topic
\* under a repeating schedule is in the table of a loop that runs on
InBandErrorIsLocal(ds) ==
    \A s \in Sources :
       (SeveralRun /\ ErroredOut(s) /\ \A x \in Sources : hist.disc[x][1] \in ds)
          => /\ sched.fatal_error = None
             /\ loop.state # "raised"
             /\ hist.disc[s][1] \in DirectDisciplines
                   => s \notin DOMAIN sched.active_schedules
             /\ \A o \in Sources \ {s} :
                   (DOMAIN pubs[o].subscribers # {}
                      /\ hist.disc[o][1] # "one_time")
                      => /\ o \in DOMAIN sched.active_schedules
                         /\ loop.state = "running"
                         /\ ~loop.stopping

\* C16: an in-band error that closes the last topic of one of several
\* scheduled sources takes only that source out of active_schedules: the
\* loop is not stopped, fatal_error stays unset and the other source keeps
\* its schedule; run_forever does not raise. For every discipline.
C16_InBandErrorIsLocal ==
    InBandErrorIsLocal(DirectDisciplines \cup WorkerDisciplines)

\* C17: when, in an observe of a source driven by schedule_periodic or
\* schedule_recurring, an on_next called inline has raised an exception that
\* is not a FatalError, the subscribers get no error event from that
\* observe, the scheduler records a fatal error and stops every schedule,
\* and run_forever does not return normally.
C17_CallbackErrorIsFatal ==
    \A s \in Sources :
       (/\ hist.inobs[s]
        /\ \A i \in 1..Len(hist.disc[s]) :
              hist.disc[s][i] \in {"periodic", "recurring"})
          => /\ s \notin hist.converted
             /\ sched.fatal_error # None
             /\ loop.state # "returned"
             /\ (hist.runs <= 1 /\ ~hist.again)
                   => /\ DOMAIN sched.active_schedules = {}
                      /\ loop.stopping \/ loop.state = "raised"
\* ---- filters
FilterPipe == chain.pipes["filter"]
\* is the Filter (stage 2) still subscribed to its source?
FilterSubscribed(pl) ==
    /\ "default" \in DOMAIN pl.stages[1].p.subscribers
    /\ FirstEq(pl.stages[1].p.subscribers["default"], StageLink(2)) # 0

\* C18: when a Filter's on_next hook raises an exception that is not a
\* FatalError, the Filter dispatches the error downstream, disposes its
\* upstream subscription whatever became of the error dispatch, and does
\* not let the exception reach its caller; a FatalError raised by the hook
\* reaches the caller unchanged, with no downstream error and no dispose.
C18_HookExceptionHandled ==
    /\ FilterPipe.hook = "Exception" =>
          /\ FilterPipe.errs = 1
          /\ ~FilterSubscribed(FilterPipe)
          /\ FilterPipe.exc = None
    /\ FilterPipe.hook = "FatalError" =>
          /\ FilterPipe.errs = 0
          /\ ~FilterPipe.disposed
          /\ FilterSubscribed(FilterPipe)
          /\ FilterPipe.exc = "FatalError"

\* ---- take
NextsOf(stream) == SelectSeq(stream, LAMBDA ev : ev.kind = "next")
Min(a, b) == IF a <= b THEN a ELSE b
\* the stream so far is events, then possibly one completed
CompletingStream(stream) == \A i \in 1..Len(stream) : stream[i].kind # "error"
\* what take(count) owes its subscriber for such a stream
TakeExpected(stream, ended, count) ==
    LET k == Len(NextsOf(stream))
    IN  SubSeq(NextsOf(stream), 1, Min(count, k))
            \o (IF k >= count \/ ended THEN <<Event("completed", None)>>
                ELSE <<>>)

\* C19: for an upstream that emits k events and then completes, the
\* subscriber of take(n), n > 0, has received exactly the first min(n,k)
\* events in order, and exactly one completed: as soon as the n-th event has
\* been delivered if k >= n, when the upstream completes if k < n; later
\* upstream events are dropped.
C19_TakeDelivers ==
    CompletingStream(chain.stream) =>
        chain.pipes["take"].out
            = TakeExpected(chain.stream, chain.ended, chain.m)

C19_Witness ==
    /\ chain.m = 2
    /\ chain.ended /\ CompletingStream(chain.stream)
    /\ Len(NextsOf(chain.stream)) = 4
    /\ chain.pipes["take"].out
          = <<Event("next", 1), Event("next", 2), Event("completed", None)>>

\* C20: for 0 < m <= n and every finite upstream stream, the subscriber of
\* take(n).take(m) has received the same sequence of events and terminal
\* as the subscriber of take(m) on the same upstream.
C20_TakeTakeIsTake ==
    chain.pipes["take_take"].out = chain.pipes["take"].out

C20_Witness ==
    /\ chain.m = 1 /\ chain.n = 3
    /\ chain.ended /\ ~CompletingStream(chain.stream)
    /\ Len(chain.stream) = 3
    /\ chain.pipes["take_take"].out
          = <<Event("next", 1), Event("completed", None)>>
    /\ chain.pipes["take"].out = chain.pipes["take_take"].out

\* ---- take_last, last
\* the last events of the stream, at most count of them
LastOf(stream, count) ==
    LET nx == NextsOf(stream)
    IN  SubSeq(nx, Len(nx) - Min(count, Len(nx)) + 1, Len(nx))

\* C21: take_last(n) emits nothing before the upstream completes; when an
\* upstream of k events completes, its subscriber receives all k events if
\* k <= n and otherwise the last n, in upstream order, and then exactly one
\* completed (only completed if n = 0).
C21_TakeLastDelivers ==
    CompletingStream(chain.stream) =>
        chain.pipes["take_last"].out =
            IF chain.ended
            THEN LastOf(chain.stream, chain.c) \o <<Event("completed", None)>>
            ELSE <<>>

C21_Witness ==
    /\ chain.c = 2
    /\ chain.ended /\ CompletingStream(chain.stream)
    /\ Len(NextsOf(chain.stream)) = 4
    /\ chain.pipes["take_last"].out
          = <<Event("next", 3), Event("next", 4), Event("completed", None)>>

\* C22: last() emits nothing before the upstream completes; when the
\* upstream completes after at least one event its subscriber receives that
\* last event and then completed; when it completes without an event the
\* subscriber receives error(SequenceContainsNoElementsError) and no next if
\* no default was given, and the default and then completed otherwise.
C22_LastDelivers ==
    CompletingStream(chain.stream) =>
        chain.pipes["last"].out =
            IF ~chain.ended THEN <<>>
            ELSE IF NextsOf(chain.stream) # <<>>
            THEN <<Event("next", Len(NextsOf(chain.stream))),
                   Event("completed", None)>>
            ELSE IF chain.d = None
            THEN <<Event("error", "SequenceContainsNoElementsError")>>
            ELSE <<Event("next", chain.d), Event("completed", None)>>

C22_Witness ==
    /\ chain.ended /\ CompletingStream(chain.stream)
    /\ Len(NextsOf(chain.stream)) = 3
    /\ chain.pipes["last"].out
          = <<Event("next", 3), Event("completed", None)>>

\* ---- sources
\* the values the subscriber of source s received as next events
ValuesOf(s) ==
    LET l == SelectSeq(hist.log, LAMBDA x : x.s = s /\ x.kind = "next")
    IN [i \in 1..Len(l) |-> l[i].val]

\* C23: a state-iterated source (states 0, 1, ... with the values 1, 2, ...,
\* condition true for the states below n) emits only values of states that
\* satisfy condition, and an observe that dispatched next has returned True.
C23_StateIteration ==
    \A s \in Sources :
       source[s].kind = "function" =>
          /\ \A i \in 1..Len(ValuesOf(s)) : ValuesOf(s)[i] <= source[s].n
          /\ hist.sent[s] = "next" => hist.ret[s] = "True"

\* the iterable source "a", its latest observe
IterableSource == source["a"].kind = "iterable"
TerminalSeen(s) == \E i \in 1..Len(LogOf(s)) : LogOf(s)[i][1] \in Terminal
\* the latest observe of "a" found the sequence at its end, or a FatalError
\* left it
Terminating ==
    LET a == source["a"] IN
    \/ hist.sent["a"] = "completed" /\ a.ends = "stop" /\ a.pos = a.n
    \/ hist.sent["a"] = "error" /\ a.ends = "exception" /\ a.pos = a.n
    \/ hist.ret["a"] \in FatalErrors

IterableContract ==
    LET a == source["a"] IN
    \* at most one element is pulled per observe, and dispatched in order
    /\ a.pos <= hist.observes["a"]
    /\ \A i \in 1..Len(ValuesOf("a")) : ValuesOf("a")[i] = i
    \* next: True; completed or error: False; unless a FatalError left the
    \* dispatch, which leaves observe too
    /\ hist.sent["a"] = "next" =>
          hist.ret["a"] = "True" \/ hist.ret["a"] \in FatalErrors
    /\ hist.sent["a"] \in Terminal =>
          /\ hist.ret["a"] = "False" \/ hist.ret["a"] \in FatalErrors
          /\ Terminating
    \* a FatalError of the sequence leaves observe, nothing is dispatched
    /\ hist.observes["a"] > 0 /\ hist.sent["a"] = None =>
          hist.ret["a"] = "FatalError" /\ a.ends = "fatal" /\ a.pos = a.n
    \* the close hook: once, in the terminating observe, before the
    \* subscriber sees the terminal event
    /\ a.closes <= 1
    /\ a.closes = 1 <=> (hist.observes["a"] > 0 /\ Terminating)
    /\ TerminalSeen("a") => a.closes >= 1

\* C24 as stated: the contract of the iterable source holds at every observe
\* of its lifetime.
C24_IterableObserve == IterableSource => IterableContract

\* C24: each observe of the iterable source pulls at most one element and
\* dispatches it as next, returning True; the end of the sequence dispatches
\* completed and a non-fatal exception of the sequence error, returning
\* False; a FatalError leaves observe; the close hook is called once, in the
\* terminating observe and before the terminal event: all this as long as
\* the program does not schedule the source again after run_forever ended.
C24_IterableObserveUntilTerminated ==
    IterableSource /\ ~hist.again => IterableContract

\* the sequence raised an exception after MaxItems elements: error was
\* dispatched, the hook called once and observe returned False
C24_Witness ==
    /\ IterableSource /\ ~hist.again
    /\ source["a"].n = MaxItems /\ source["a"].ends = "exception"
    /\ LogOf("a") = ExpectedNexts(MaxItems) \o <<<<"error", 0>>>>
    /\ source["a"].closes = 1
    /\ hist.ret["a"] = "False"

\* ---- BlockingSubscriber
\* an event as the publisher emitted it, a handler call as the event it was
\* called for
AsEvent(x) == [kind |-> x.kind, on |-> x.on, val |-> x.val]
EventsOf(l) == [i \in 1..Len(l) |-> AsEvent(l[i])]
ServedTopics == {bridge.topics[i] : i \in 1..Len(bridge.topics)}

\* C25: for every topic T the bridge serves, the handler calls whose topic
\* argument is T are, in order, the events the publishers emitted on T (those
\* the worker has come to so far); no event emitted on T is handed to the
\* handler with another topic.
C25_PerTopicDelivery ==
    /\ \A T \in ServedTopics :
          IsPrefix(EventsOf(SelectSeq(bridge.handled, LAMBDA a : a.topic = T)),
                   SelectSeq(bridge.emitted, LAMBDA ev : ev.on = T))
    /\ \A i \in 1..Len(bridge.handled) :
          bridge.handled[i].topic = bridge.handled[i].on

\* C26: once request_stop has put its token into the queue, the worker
\* handles no tuple enqueued after the token, and when it has exited it has
\* handled every tuple enqueued before the token, in FIFO order.
C26_StopProtocol ==
    bridge.cut # -1 =>
       /\ Len(bridge.handled) <= bridge.cut
       /\ bridge.worker = "exited" =>
             EventsOf(bridge.handled) = SubSeq(bridge.emitted, 1, bridge.cut)

\* the topics for which a terminal event has been handled
TerminalHandled ==
    {bridge.handled[i].on : i \in {j \in 1..Len(bridge.handled) :
                                     bridge.handled[j].closing}}

\* C27: without request_stop, Scheduler.stop and handler exceptions, the
\* worker leaves its loop exactly when every topic of the bridge's list has
\* received a terminal event, right after handling the last of them.
C27_NaturalTermination ==
    (bridge.stops = 0 /\ ~bridge.failed /\ bridge.fatal_error = None) =>
       (bridge.worker \in {"leaving", "exited"}
           <=> TerminalHandled = ServedTopics)

\* C28: when the worker has exited, _close has been called once, the thread
\* attribute is None and one deregistration has been posted; the bridge is in
\* active_schedules until the deregistration has run, and the loop is not
\* stopped before; the deregistration removes the bridge; after an exit by
\* an exception run_forever does not return normally.
C28_WorkerExit ==
    LET exited == bridge.worker = "exited"
        dereg == \E i \in 1..Len(bridge.ran) :
                    bridge.ran[i][1] \in {"done", "die"}
    IN  /\ bridge.closes = (IF exited THEN 1 ELSE 0)
        /\ exited => bridge.thread = None /\ Len(bridge.posts) = 1
        /\ ~exited => bridge.posts = <<>>
        /\ (exited /\ ~dereg) =>
              /\ "bridge" \in bridge.active_schedules
              /\ bridge.loop.state \in {"idle", "running"}
        /\ dereg => /\ "bridge" \notin bridge.active_schedules
                    /\ \A i \in 1..Len(bridge.ran) :
                          bridge.ran[i][2] \in {None, "ScheduleError"}
        /\ bridge.failed => bridge.loop.state # "returned"

\* ---- RollingCsvWriter
Pad4(n) ==
    IF n < 10 THEN "000" \o ToString(n)
    ELSE IF n < 100 THEN "00" \o ToString(n)
    ELSE IF n < 1000 THEN "0" \o ToString(n)
    ELSE ToString(n)

\* <base>-YYYY-MM-DD.csv
DailyFile(d) ==
    BaseName \o "-" \o Pad4(Year(d)) \o "-" \o Pad2(Month(d)) \o "-"
             \o Pad2(Day(d)) \o ".csv"

\* the rows of the events of date d, in the order of the stream
RECURSIVE RowsOfDate(_, _, _)
RowsOfDate(events, d, i) ==
    IF i > Len(events) THEN <<>>
    ELSE (IF events[i] = d THEN <<EventRow(d, i)>> ELSE <<>>)
         \o RowsOfDate(events, d, i + 1)

\* the file operations of kind op, in order
OpsOf(ops, op) == SelectSeq(ops, LAMBDA o : o.op = op)

\* the operations before the i-th that opened or closed a file
OpenCloseBefore(ops, i) ==
    SelectSeq(SubSeq(ops, 1, i - 1), LAMBDA o : o.op \in {"open", "close"})

\* C29: every row is written to <base>-YYYY-MM-DD.csv of its event's date, in
\* stream order; at most one file is open at a time; a file is opened exactly
\* when the date of an event differs from the date of the current file, and
\* the current file is closed before the next is opened; a header row is
\* written exactly when the opened file did not exist before; completed and
\* error close the open file.
C29_RollingCsvWriter ==
    LET ops == csv.ops
        ev == csv.events
    IN  /\ csv.exc = None
        /\ Len(csv.handles) <= 1
        /\ [i \in DOMAIN OpsOf(ops, "row") |-> OpsOf(ops, "row")[i].row]
             = [i \in DOMAIN ev |-> EventRow(ev[i], i)]
        /\ \A i \in DOMAIN ops :
             /\ ops[i].op = "row" => ops[i].name = DailyFile(ops[i].row.date)
             /\ ops[i].op = "open" =>
                  LET before == OpenCloseBefore(ops, i)
                      existed == \/ ops[i].name \in csv.existing
                                 \/ \E j \in 1..(i - 1) :
                                      /\ ops[j].op = "open"
                                      /\ ops[j].name = ops[i].name
                  IN  /\ before # <<>> =>
                           /\ before[Len(before)].op = "close"
                           /\ Len(before) > 1
                           /\ before[Len(before) - 1].op = "open"
                           /\ before[Len(before) - 1].name
                                = before[Len(before)].name
                      /\ i < Len(ops)
                      /\ ops[i + 1].name = ops[i].name
                      /\ ops[i + 1].op = (IF existed THEN "row" ELSE "header")
             /\ ops[i].op = "header" => i > 1 /\ ops[i - 1].op = "open"
        /\ Len(OpsOf(ops, "open"))
             = Cardinality({i \in DOMAIN ev :
                               i = 1 \/ ev[i] # ev[i - 1]})
        /\ \A d \in Dates :
             csv.fs[DailyFile(d)].rows
               = (IF DailyFile(d) \in csv.existing THEN <<OldRow>>
                  ELSE IF \E i \in DOMAIN ev : ev[i] = d THEN <<HeaderRow>>
                  ELSE <<>>)
                 \o RowsOfDate(ev, d, 1)
        /\ csv.ended = "no" /\ ev # <<>> =>
             csv.handles = <<DailyFile(ev[Len(ev)])>>
        /\ csv.ended # "no" => csv.handles = <<>>

\* a stream that returns to the date of a file the writer created itself,
\* after appending to a file that existed before, and then ends
C29_Witness ==
    /\ csv.ended # "no"
    /\ Len(csv.events) >= 3
    /\ csv.events[1] = csv.events[3]
    /\ csv.events[1] # csv.events[2]
    /\ FileName(csv.events[1]) \notin csv.existing
    /\ FileName(csv.events[2]) \in csv.existing
    /\ Len(OpsOf(csv.ops, "close")) = 3

\* ---- the scheduler links of a publisher
\* C30: once every topic of a publisher has been closed, its unschedule hook
\* and its enqueue_fn are both None, whichever discipline scheduled it (a
\* publisher that is scheduled again afterwards is given new links).
C30_LinksReleased ==
    \A s \in Sources :
        DOMAIN pubs[s].subscribers = {} /\ Len(hist.disc[s]) <= 1 =>
            /\ pubs[s].unschedule_hook = None
            /\ pubs[s].enqueue_fn = None

\* ---- removal from active_schedules
TableOf(sc) == DOMAIN sc.active_schedules

\* C31: entries leave active_schedules only through
\* _remove_from_active_schedules (or the clearing of the table by stop);
\* a step that empties the table requests the loop to stop; and the loop is
\* not stopping with a non-empty table unless there is a fatal error or the
\* program has called stop or a cancel handle.
C31_SingleRemovalPath ==
    /\ [](hist.direct = {})
    /\ [](loop.stopping /\ TableOf(sched) # {} =>
             sched.fatal_error # None \/ hist.user > 0)
    /\ [][TableOf(sched) # {} /\ TableOf(sched') = {} =>
             \/ loop'.stopping
             \/ loop.state = "running" /\ loop'.state \in {"returned", "raised"}
         ]_vars

\* ---- worker threads and the publisher's tables
\* the step is an _observe_and_enqueue made by the worker thread of s
WorkerStep(s) == thread[s].state = "observing" /\ thread'[s].state # "observing"

\* C32: a step of a worker thread leaves __subscribers__, __topics__ and
\* __closed_topics__ of its publisher as they were: it only posts calls to
\* the main loop, where every change of the three is made.
C32_WorkerOnlyPosts ==
    [][\A s \in Sources :
          WorkerStep(s) =>
             /\ pubs'[s].subscribers = pubs[s].subscribers
             /\ pubs'[s].topics = pubs[s].topics
             /\ pubs'[s].closed_topics = pubs[s].closed_topics]_vars

\* ---- Scheduler.stop
\* the step is a call of Scheduler.stop by the program
StopCalled ==
    /\ hist'.user = hist.user + 1
    /\ Len(hist'.cancels) = Len(hist.cancels)

\* the handle is pending in the loop l: a timer, or ready and not cancelled
Pending(l, id) ==
    \/ \E x \in l.timers : x.id = id
    \/ /\ \E i \in 1..Len(l.ready) : l.ready[i].id = id
       /\ id \notin l.cancelled

\* Scheduler.stop has returned: no handle of the old table is pending, every
\* thread of the old table is asked to stop, the table is empty and the loop
\* has been requested to stop (or has stopped already)
StopDone ==
    /\ \A s \in TableOf(sched) :
          LET h == sched.active_schedules[s] IN
          IF h.type = "handle" THEN ~Pending(loop', h.ref)
          ELSE thread'[h.ref].stop_requested
    /\ TableOf(sched') = {}
    /\ \/ loop'.stopping
       \/ loop.state = "running" /\ loop'.state \in {"returned", "raised"}

\* C33: after Scheduler.stop() has returned every timer handle of the table
\* is cancelled, every stop function of the table has been called, the table
\* is empty and the loop is requested to stop; and no source scheduled on the
\* main loop is observed afterwards (unless it is scheduled again).
C33_StopStopsEverything ==
    /\ [][StopCalled => StopDone]_vars
    /\ [](hist.afterstop = {})

\* ---- the assertions of the run tasks
\* C34: the assert statements in run() of schedule_periodic and
\* schedule_recurring never fail: the source is in active_schedules when its
\* task runs, and when observe returns a false value the source is no longer
\* in active_schedules.
C34_RunAssertionsHold == hist.asserted = {}

\* ---- deregistration after a stop
\* C35: a done() or die() that the loop runs after stop() or the exception
\* handler has emptied active_schedules raises nothing (no KeyError for the
\* missing entry); so after a stop() by the program and an exit of the worker
\* without an exception, run_forever does not raise ScheduleError.
C35_LateDeregistration ==
    /\ \A i \in 1..Len(bridge.ran) : bridge.ran[i][2] # "KeyError"
    /\ bridge.userstop /\ ~bridge.failed => bridge.loop.state # "raised"

\* ---- take and its closed topic
\* C36: whatever the upstream sends (next events, then completed or error,
\* also after the n-th event), no call into take(n) raises TopicAlreadyClosed.
C36_TakeNeverDispatchesClosed ==
    /\ chain.pipes["take"].exc # "TopicAlreadyClosed"
    /\ chain.pipes["take_take"].exc # "TopicAlreadyClosed"

\* ---------------------------------------------------------------------------
\* A Publisher shared by two threads. The source runs on the thread of
\* schedule_on_private_event_loop, so its dispatches, and the _close_topic of
\* a terminal one, run on that thread, while subscribe and the dispose thunks
\* run on the main thread. Nothing synchronises the two, so their statements
\* interleave. A subscription is the number of the subscribe call that made it.
\* ---------------------------------------------------------------------------
RaceTopics == {"default", "other"}

NewShared(ts) ==
    [topics |-> ts,
     subscribers |-> [t \in ts |-> IF t = "default" THEN <<1>> ELSE <<>>],
     closed_topics |-> <<>>,
     held |-> <<"default">>,     \* the topic of every subscription made
     wpc |-> "idle", wtopic |-> None, wexc |-> None,
     mpc |-> "idle", mtopic |-> None, mcopy |-> <<>>, mexc |-> None,
     ops |-> 0]

RaceInit ==
    /\ pub = NewPublisher(DeclaredTopics)
    /\ stack = <<>>
    /\ loopq = <<>>
    /\ handles = <<>>
    /\ trace = <<>>
    /\ last = Result("init", None, None, NoArg, 0, "ok", {})
    /\ ncalls = 0
    /\ hookCalls = 0
    /\ termDone = {}
    /\ raised = FALSE
    /\ pubs = [s \in Sources |-> SourcePublisher(s)]
    /\ source = [s \in Sources |-> NewSource(0, "stop")]
    /\ sched = NewScheduler
    /\ loop = NewEventLoop
    /\ thread = [s \in Sources |-> NoThread]
    /\ hist = NoHistory
    /\ chain = None
    /\ bridge = None
    /\ csv = None
    /\ shared = NewShared(RaceTopics)

\* worker thread: _dispatch_completed or _dispatch_error up to the call of
\* _close_topic (the callbacks are posted to the loop, not called)
WorkerDispatch(t) ==
    /\ shared.wpc = "idle" /\ shared.ops < MaxRaceOps
    /\ shared' = IF t \in DOMAIN shared.subscribers
                 THEN [shared EXCEPT !.wpc = "close", !.wtopic = t,
                                     !.wexc = None, !.ops = @ + 1]
                 ELSE [shared EXCEPT !.ops = @ + 1,
                          !.wexc = IF \E i \in DOMAIN shared.closed_topics :
                                          shared.closed_topics[i] = t
                                   THEN "TopicAlreadyClosed"
                                   ELSE "UnknownTopicError"]
    /\ UNCHANGED <<pubVars, schedVars, filtVars, sinkVars, csvVars>>

\* worker thread: the next statement of _close_topic
WorkerCloseTopic ==
    /\ shared.wpc \in {"close", "deleted", "removed"}
    /\ LET t == shared.wtopic IN
       shared' =
         CASE shared.wpc = "close" ->
                IF t \in DOMAIN shared.subscribers
                THEN [shared EXCEPT !.wpc = "deleted",
                        !.subscribers = [u \in DOMAIN @ \ {t} |-> @[u]]]
                ELSE [shared EXCEPT !.wpc = "idle", !.wexc = "KeyError"]
           [] shared.wpc = "deleted" ->
                IF t \in shared.topics
                THEN [shared EXCEPT !.wpc = "removed", !.topics = @ \ {t}]
                ELSE [shared EXCEPT !.wpc = "idle", !.wexc = "KeyError"]
           [] OTHER ->
                [shared EXCEPT !.wpc = "idle",
                               !.closed_topics = Append(@, t)]
    /\ UNCHANGED <<pubVars, schedVars, filtVars, sinkVars, csvVars>>

\* main thread: subscribe up to the topic check
SubscribeBegin(t) ==
    /\ shared.mpc = "idle" /\ shared.ops < MaxRaceOps
    /\ shared' = IF t \notin shared.topics
                 THEN [shared EXCEPT !.mexc = "InvalidTopicError",
                                     !.ops = @ + 1]
                 ELSE [shared EXCEPT !.mpc = "sub_copy", !.mtopic = t,
                                     !.mexc = None, !.ops = @ + 1]
    /\ UNCHANGED <<pubVars, schedVars, filtVars, sinkVars, csvVars>>

\* main thread: subscribe copies the list of the topic and appends
SubscribeCopy ==
    /\ shared.mpc = "sub_copy"
    /\ shared' = IF shared.mtopic \in DOMAIN shared.subscribers
                 THEN [shared EXCEPT !.mpc = "store",
                         !.mcopy = Append(shared.subscribers[shared.mtopic],
                                          Len(shared.held) + 1),
                         !.held = Append(@, shared.mtopic)]
                 ELSE [shared EXCEPT !.mpc = "idle", !.mexc = "KeyError"]
    /\ UNCHANGED <<pubVars, schedVars, filtVars, sinkVars, csvVars>>

\* main thread: the dispose thunk of subscription sid copies the list of its
\* topic and removes the subscription from the copy
DisposeBegin(sid) ==
    /\ shared.mpc = "idle" /\ shared.ops < MaxRaceOps
    /\ sid \in DOMAIN shared.held
    /\ LET t == shared.held[sid] IN
       shared' =
         IF t \notin DOMAIN shared.subscribers
         THEN [shared EXCEPT !.mexc = "KeyError", !.ops = @ + 1]
         ELSE IF \A i \in DOMAIN shared.subscribers[t] :
                     shared.subscribers[t][i] # sid
         THEN [shared EXCEPT !.mexc = "ValueError", !.ops = @ + 1]
         ELSE [shared EXCEPT !.mpc = "store", !.mtopic = t, !.mexc = None,
                 !.ops = @ + 1,
                 !.mcopy = SelectSeq(shared.subscribers[t],
                                     LAMBDA x : x # sid)]
    /\ UNCHANGED <<pubVars, schedVars, filtVars, sinkVars, csvVars>>

\* main thread: self.__subscribers__[pub_topic] = new_subscribers, the last
\* statement of subscribe and of dispose; an assignment creates a missing key
MainStore ==
    /\ shared.mpc = "store"
    /\ shared' = [shared EXCEPT !.mpc = "idle",
         !.subscribers = [u \in DOMAIN @ \cup {shared.mtopic} |->
                             IF u = shared.mtopic THEN shared.mcopy ELSE @[u]]]
    /\ UNCHANGED <<pubVars, schedVars, filtVars, sinkVars, csvVars>>

RaceNext ==
    \/ \E t \in RaceTopics : WorkerDispatch(t)
    \/ WorkerCloseTopic
    \/ \E t \in RaceTopics \cup {"nope"} : SubscribeBegin(t)
    \/ SubscribeCopy
    \/ \E sid \in 1..MaxRaceOps : DisposeBegin(sid)
    \/ MainStore

SpecRace == RaceInit /\ [][RaceNext]_vars

\* ---- the invariant of a Publisher
Quiet(p) == p.wpc = "idle" /\ p.mpc = "idle"

\* C37: whenever no call is part-way through, the key set of __subscribers__
\* is __topics__, __topics__ and __closed_topics__ are disjoint, together they
\* are the topics declared at construction, and no topic is twice in
\* __closed_topics__; also when a worker thread makes the terminal dispatches
\* while the main thread subscribes and disposes.
C37_PublisherInvariant ==
    Quiet(shared) =>
        LET closed == {shared.closed_topics[i] :
                          i \in DOMAIN shared.closed_topics} IN
        /\ DOMAIN shared.subscribers = shared.topics
        /\ shared.topics \cap closed = {}
        /\ shared.topics \cup closed = RaceTopics
        /\ Cardinality(closed) = Len(shared.closed_topics)

\* ---- the end of a one-time schedule
\* C38: a source scheduled once with schedule_later_one_time that has closed
\* its last topic in its observe has ended cleanly: the unschedule hook that
\* the closure called raised no ScheduleError, so the terminal dispatch
\* returned, and the hook and enqueue_fn of the publisher are None.
C38_OneTimeEndsCleanly ==
    \A s \in Sources :
        hist.disc[s] = <<"one_time">> /\ DOMAIN pubs[s].subscribers = {} =>
            /\ hist.ret[s] # "ScheduleError"
            /\ pubs[s].unschedule_hook = None
            /\ pubs[s].enqueue_fn = None

====
